---- MODULE Spec2Model ----
(***************************************************************************)
(* The finite model builder of Vampire (FMB/FiniteModelBuilder.cpp): the   *)
(* propositional variable layout of reset(), the grounding encoder and the *)
(* outer search loop of runImpl().                                         *)
(***************************************************************************)
EXTENDS Integers, Naturals, Sequences, FiniteSets, TLC

(***************************************************************************)
(* Bounds of the model.                                                    *)
(***************************************************************************)
\* width of the C type `unsigned` in the model (32 in the build)
WordBits == 8
\* start sizes 1..MaxStart are offered to fmbStartSize
MaxStart == 5
\* the search loop is not followed beyond this model size
MaxSize == 7
\* the clauses of the encoder are built for the sizes 1..MaxEncSize
MaxEncSize == 3
\* the satisfying assignments are enumerated up to this many variables
MaxSatVars == 10
\* a counter loop is followed for at most this many groundings of a clause
MaxVisits == 300
\* the assignments to the grounded terms of a sort are enumerated up to this many terms
MaxTerms == 7
\* the longest function list of a sort in the problems generated for the diagonal
MaxDiagonalFunctions == 3
\* the variables of the clauses given to Lingeling and the calls made on it
MaxLingelingVars == 2
MaxLingelingCalls == 4

UINT_MAX == 2^WordBits - 1

\* unsigned arithmetic wraps around
Wrap(x) == x % (UINT_MAX + 1)

Min(a, b) == IF a < b THEN a ELSE b

\* a C array as a function on 0..n-1
Arr(s) == [i \in 0..(Len(s) - 1) |-> s[i + 1]]

ArrLen(a) == Cardinality(DOMAIN a)

\* the smallest size whose square is no unsigned value
RECURSIVE FirstSquareAbove(_)
FirstSquareAbove(n) == IF n * n > UINT_MAX THEN n ELSE FirstSquareAbove(n + 1)

OverflowStart == FirstSquareAbove(1)

(***************************************************************************)
(* Flat literals and clauses (Kernel::Literal after ClauseFlattening).     *)
(* Variables are numbered densely from 0.                                  *)
(***************************************************************************)
\* x = y or x != y
Eq2(pos, x, y) == [kind |-> "eq2", pos |-> pos, f |-> 0, args |-> <<x, y>>]
\* f(xs) = y or f(xs) != y
Def(pos, f, xs, y) == [kind |-> "def", pos |-> pos, f |-> f, args |-> xs \o <<y>>]
\* p(xs) or ~p(xs)
Pred(pos, p, xs) == [kind |-> "pred", pos |-> pos, f |-> p, args |-> xs]

isTwoVarEquality(l) == l.kind = "eq2"
isEquality(l) == l.kind \in {"eq2", "def"}

ClauseVars(c) == UNION {{c[i].args[j] : j \in 1..Len(c[i].args)} : i \in 1..Len(c)}
varCnt(c) == Cardinality(ClauseVars(c))

(***************************************************************************)
(* Input problems: the signature (env.signature), the flattened clauses in *)
(* the order the clause iterator yields them, the eliminated symbols, the  *)
(* property category and the sorted signature SortInference::apply returns *)
(* for them.  Function and predicate numbers are the signature's; predicate*)
(* 0 is equality.  Inf is the bound of an unbounded sort.                  *)
(***************************************************************************)
Inf == UINT_MAX

\* a, f/1:  f(f(x)) = x,  f(a) != a
Cycle ==
  [ name |-> "Cycle", epr |-> FALSE,
    functionArity |-> Arr(<<0, 1>>), predicateArity |-> Arr(<<2>>),
    deletedFunctions |-> {}, deletedPredicates |-> {},
    input |-> << <<Def(FALSE, 1, <<0>>, 1), Def(TRUE, 1, <<1>>, 0)>>,
                 <<Def(FALSE, 0, <<>>, 0), Def(FALSE, 1, <<0>>, 0)>> >>,
    sorts |-> 1,
    sortedConstants |-> Arr(<< <<0>> >>), sortedFunctions |-> Arr(<< <<1>> >>),
    functionBounds |-> Arr(<< Arr(<<Inf>>), Arr(<<Inf, Inf>>) >>),
    predicateBounds |-> Arr(<< Arr(<<Inf, Inf>>) >>) ]

\* sort 0 = {a} with bound 1, sort 1 unbounded with c and g : sort 0 -> sort 1:
\* p(a), g(x) != c
TwoSorts ==
  [ name |-> "TwoSorts", epr |-> FALSE,
    functionArity |-> Arr(<<0, 0, 1>>), predicateArity |-> Arr(<<2, 1>>),
    deletedFunctions |-> {}, deletedPredicates |-> {},
    input |-> << <<Pred(TRUE, 1, <<0>>), Def(FALSE, 0, <<>>, 0)>>,
                 <<Def(FALSE, 2, <<0>>, 1), Def(FALSE, 1, <<>>, 1)>> >>,
    sorts |-> 2,
    sortedConstants |-> Arr(<< <<0>>, <<1>> >>),
    sortedFunctions |-> Arr(<< <<>>, <<2>> >>),
    functionBounds |-> Arr(<< Arr(<<1>>), Arr(<<Inf>>), Arr(<<Inf, 1>>) >>),
    predicateBounds |-> Arr(<< Arr(<<Inf, Inf>>), Arr(<<1>>) >>) ]

\* effectively propositional: p(a), ~p(b)
Epr ==
  [ name |-> "Epr", epr |-> TRUE,
    functionArity |-> Arr(<<0, 0>>), predicateArity |-> Arr(<<2, 1>>),
    deletedFunctions |-> {}, deletedPredicates |-> {},
    input |-> << <<Pred(TRUE, 1, <<4>>), Def(FALSE, 0, <<>>, 4)>>,
                 <<Pred(FALSE, 1, <<0>>), Def(FALSE, 1, <<>>, 0)>> >>,
    sorts |-> 1,
    sortedConstants |-> Arr(<< <<0, 1>> >>), sortedFunctions |-> Arr(<< <<>> >>),
    functionBounds |-> Arr(<< Arr(<<2>>), Arr(<<2>>) >>),
    predicateBounds |-> Arr(<< Arr(<<Inf, Inf>>), Arr(<<2>>) >>) ]

\* no function symbol: the ground clauses p | q, ~p
Propositional ==
  [ name |-> "Propositional", epr |-> TRUE,
    functionArity |-> Arr(<<>>), predicateArity |-> Arr(<<2, 0, 0>>),
    deletedFunctions |-> {}, deletedPredicates |-> {},
    input |-> << <<Pred(TRUE, 1, <<>>), Pred(TRUE, 2, <<>>)>>,
                 <<Pred(FALSE, 1, <<>>)>> >>,
    sorts |-> 0,
    sortedConstants |-> Arr(<<>>), sortedFunctions |-> Arr(<<>>),
    functionBounds |-> Arr(<<>>),
    predicateBounds |-> Arr(<< Arr(<<Inf, Inf>>), Arr(<<>>), Arr(<<>>) >>) ]

\* a, f/1:  x0 = x1 | x0 = x2 | x1 = x2,  x0 = x1 | x1 = x2 | x2 = x3 | x3 = x0,  f(x) != x
Distinct ==
  [ name |-> "Distinct", epr |-> FALSE,
    functionArity |-> Arr(<<0, 1>>), predicateArity |-> Arr(<<2>>),
    deletedFunctions |-> {}, deletedPredicates |-> {},
    input |-> << <<Eq2(TRUE, 0, 1), Eq2(TRUE, 1, 2), Eq2(TRUE, 2, 3), Eq2(TRUE, 3, 0)>>,
                 <<Eq2(TRUE, 0, 1), Eq2(TRUE, 0, 2), Eq2(TRUE, 1, 2)>>,
                 <<Def(FALSE, 1, <<0>>, 0)>> >>,
    sorts |-> 1,
    sortedConstants |-> Arr(<< <<0>> >>), sortedFunctions |-> Arr(<< <<1>> >>),
    functionBounds |-> Arr(<< Arr(<<Inf>>), Arr(<<Inf, Inf>>) >>),
    predicateBounds |-> Arr(<< Arr(<<Inf, Inf>>) >>) ]

\* the only constant a is eliminated; f/1:  f(x) != x
NoConstant ==
  [ name |-> "NoConstant", epr |-> FALSE,
    functionArity |-> Arr(<<0, 1>>), predicateArity |-> Arr(<<2>>),
    deletedFunctions |-> {0}, deletedPredicates |-> {},
    input |-> << <<Def(FALSE, 1, <<0>>, 0)>> >>,
    sorts |-> 1,
    sortedConstants |-> Arr(<< <<>> >>), sortedFunctions |-> Arr(<< <<1>> >>),
    functionBounds |-> Arr(<< Arr(<<Inf>>), Arr(<<Inf, Inf>>) >>),
    predicateBounds |-> Arr(<< Arr(<<Inf, Inf>>) >>) ]

\* f/1, g/1, a and p/1 (eliminated):  f(x) != y | g(y) = x,  g(a) != a
TwoUnary ==
  [ name |-> "TwoUnary", epr |-> FALSE,
    functionArity |-> Arr(<<1, 1, 0>>), predicateArity |-> Arr(<<2, 1>>),
    deletedFunctions |-> {}, deletedPredicates |-> {1},
    input |-> << <<Def(FALSE, 0, <<0>>, 1), Def(TRUE, 1, <<1>>, 0)>>,
                 <<Def(FALSE, 2, <<>>, 0), Def(FALSE, 1, <<0>>, 0)>> >>,
    sorts |-> 1,
    sortedConstants |-> Arr(<< <<2>> >>), sortedFunctions |-> Arr(<< <<0, 1>> >>),
    functionBounds |-> Arr(<< Arr(<<Inf, Inf>>), Arr(<<Inf, Inf>>), Arr(<<Inf>>) >>),
    predicateBounds |-> Arr(<< Arr(<<Inf, Inf>>), Arr(<<Inf>>) >>) ]

\* h/2, a:  h(x, y) != z | h(y, x) = z,  h(a, a) != a
Binary ==
  [ name |-> "Binary", epr |-> FALSE,
    functionArity |-> Arr(<<2, 0>>), predicateArity |-> Arr(<<2>>),
    deletedFunctions |-> {}, deletedPredicates |-> {},
    input |-> << <<Def(FALSE, 0, <<0, 1>>, 2), Def(TRUE, 0, <<1, 0>>, 2)>>,
                 <<Def(FALSE, 1, <<>>, 0), Def(FALSE, 0, <<0, 0>>, 0)>> >>,
    sorts |-> 1,
    sortedConstants |-> Arr(<< <<1>> >>), sortedFunctions |-> Arr(<< <<0>> >>),
    functionBounds |-> Arr(<< Arr(<<Inf, Inf, Inf>>), Arr(<<Inf>>) >>),
    predicateBounds |-> Arr(<< Arr(<<Inf, Inf>>) >>) ]

\* one sort {a, b} with bound 2 and k/1 on it:  k(a) != a,  k(k(x)) = x
BoundedRange ==
  [ name |-> "BoundedRange", epr |-> FALSE,
    functionArity |-> Arr(<<0, 0, 1>>), predicateArity |-> Arr(<<2>>),
    deletedFunctions |-> {}, deletedPredicates |-> {},
    input |-> << <<Def(FALSE, 0, <<>>, 0), Def(FALSE, 2, <<0>>, 0)>>,
                 <<Def(FALSE, 2, <<0>>, 1), Def(TRUE, 2, <<1>>, 0)>> >>,
    sorts |-> 1,
    sortedConstants |-> Arr(<< <<0, 1>> >>), sortedFunctions |-> Arr(<< <<2>> >>),
    functionBounds |-> Arr(<< Arr(<<2>>), Arr(<<2>>), Arr(<<2, 2>>) >>),
    predicateBounds |-> Arr(<< Arr(<<Inf, Inf>>) >>) ]

\* one sort {a} with bound 1 and p/1 on it:  p(a)
Singleton ==
  [ name |-> "Singleton", epr |-> TRUE,
    functionArity |-> Arr(<<0>>), predicateArity |-> Arr(<<2, 1>>),
    deletedFunctions |-> {}, deletedPredicates |-> {},
    input |-> << <<Pred(TRUE, 1, <<0>>), Def(FALSE, 0, <<>>, 0)>> >>,
    sorts |-> 1,
    sortedConstants |-> Arr(<< <<0>> >>), sortedFunctions |-> Arr(<< <<>> >>),
    functionBounds |-> Arr(<< Arr(<<1>>) >>),
    predicateBounds |-> Arr(<< Arr(<<Inf, Inf>>), Arr(<<1>>) >>) ]

\* one unbounded sort with the constant a:  a = x
AllEqual ==
  [ name |-> "AllEqual", epr |-> TRUE,
    functionArity |-> Arr(<<0>>), predicateArity |-> Arr(<<2>>),
    deletedFunctions |-> {}, deletedPredicates |-> {},
    input |-> << <<Def(TRUE, 0, <<>>, 0)>> >>,
    sorts |-> 1,
    sortedConstants |-> Arr(<< <<0>> >>), sortedFunctions |-> Arr(<< <<>> >>),
    functionBounds |-> Arr(<< Arr(<<Inf>>) >>),
    predicateBounds |-> Arr(<< Arr(<<Inf, Inf>>) >>) ]

\* a, f/1, f one-to-one:  f(x) != z | f(y) != z | x = y,  f(a) != a
Injective ==
  [ name |-> "Injective", epr |-> FALSE,
    functionArity |-> Arr(<<0, 1>>), predicateArity |-> Arr(<<2>>),
    deletedFunctions |-> {}, deletedPredicates |-> {},
    input |-> << <<Def(FALSE, 1, <<0>>, 2), Def(FALSE, 1, <<1>>, 2), Eq2(TRUE, 0, 1)>>,
                 <<Def(FALSE, 0, <<>>, 0), Def(FALSE, 1, <<0>>, 0)>> >>,
    sorts |-> 1,
    sortedConstants |-> Arr(<< <<0>> >>), sortedFunctions |-> Arr(<< <<1>> >>),
    functionBounds |-> Arr(<< Arr(<<Inf>>), Arr(<<Inf, Inf>>) >>),
    predicateBounds |-> Arr(<< Arr(<<Inf, Inf>>) >>) ]

\* a, p/0, q/0, r/1 with ground and non-ground clauses:
\* p | q,  ~p,  q | q,  p | ~p,  r(a),  ~r(x) | q
Mixed ==
  [ name |-> "Mixed", epr |-> TRUE,
    functionArity |-> Arr(<<0>>), predicateArity |-> Arr(<<2, 0, 0, 1>>),
    deletedFunctions |-> {}, deletedPredicates |-> {},
    input |-> << <<Pred(TRUE, 1, <<>>), Pred(TRUE, 2, <<>>)>>,
                 <<Pred(FALSE, 1, <<>>)>>,
                 <<Pred(TRUE, 2, <<>>), Pred(TRUE, 2, <<>>)>>,
                 <<Pred(TRUE, 1, <<>>), Pred(FALSE, 1, <<>>)>>,
                 <<Pred(TRUE, 3, <<0>>), Def(FALSE, 0, <<>>, 0)>>,
                 <<Pred(FALSE, 3, <<0>>), Pred(TRUE, 2, <<>>)>> >>,
    sorts |-> 1,
    sortedConstants |-> Arr(<< <<0>> >>), sortedFunctions |-> Arr(<< <<>> >>),
    functionBounds |-> Arr(<< Arr(<<1>>) >>),
    predicateBounds |-> Arr(<< Arr(<<Inf, Inf>>), Arr(<<>>), Arr(<<>>), Arr(<<1>>) >>) ]

\* a, b, c of one sort with bound 3:  a = b,  b = c,  a != c, flattened to
\* a != x | b = x,  b != x | c = x,  a != x | c != x
ThreeConstants ==
  [ name |-> "ThreeConstants", epr |-> TRUE,
    functionArity |-> Arr(<<0, 0, 0>>), predicateArity |-> Arr(<<2>>),
    deletedFunctions |-> {}, deletedPredicates |-> {},
    input |-> << <<Def(FALSE, 0, <<>>, 0), Def(TRUE, 1, <<>>, 0)>>,
                 <<Def(FALSE, 1, <<>>, 0), Def(TRUE, 2, <<>>, 0)>>,
                 <<Def(FALSE, 0, <<>>, 0), Def(FALSE, 2, <<>>, 0)>> >>,
    sorts |-> 1,
    sortedConstants |-> Arr(<< <<0, 1, 2>> >>), sortedFunctions |-> Arr(<< <<>> >>),
    functionBounds |-> Arr(<< Arr(<<3>>), Arr(<<3>>), Arr(<<3>>) >>),
    predicateBounds |-> Arr(<< Arr(<<Inf, Inf>>) >>) ]

\* a, f/1, p/1 live; g/1 (g(x) = f(x)), the constant e (e = a), q/1
\* (q(x) <=> ~p(x)) and the proposition r (pure, true) eliminated:  f(x) != x,  p(a)
Eliminated ==
  [ name |-> "Eliminated", epr |-> FALSE,
    functionArity |-> Arr(<<0, 1, 1, 0>>), predicateArity |-> Arr(<<2, 1, 1, 0>>),
    deletedFunctions |-> {2, 3}, deletedPredicates |-> {2, 3},
    input |-> << <<Def(FALSE, 1, <<0>>, 0)>>,
                 <<Pred(TRUE, 1, <<0>>), Def(FALSE, 0, <<>>, 0)>> >>,
    sorts |-> 1,
    sortedConstants |-> Arr(<< <<0>> >>), sortedFunctions |-> Arr(<< <<1>> >>),
    functionBounds |-> Arr(<< Arr(<<Inf>>), Arr(<<Inf, Inf>>), Arr(<<Inf, Inf>>), Arr(<<Inf>>) >>),
    predicateBounds |-> Arr(<< Arr(<<Inf, Inf>>), Arr(<<Inf>>), Arr(<<Inf>>), Arr(<<>>) >>) ]

\* effectively propositional with two sorts, {a} with bound 1 and {b, c} with
\* bound 2:  p(a),  q(b),  ~q(c)
EprTwoSorts ==
  [ name |-> "EprTwoSorts", epr |-> TRUE,
    functionArity |-> Arr(<<0, 0, 0>>), predicateArity |-> Arr(<<2, 1, 1>>),
    deletedFunctions |-> {}, deletedPredicates |-> {},
    input |-> << <<Pred(TRUE, 1, <<0>>), Def(FALSE, 0, <<>>, 0)>>,
                 <<Pred(TRUE, 2, <<0>>), Def(FALSE, 1, <<>>, 0)>>,
                 <<Pred(FALSE, 2, <<0>>), Def(FALSE, 2, <<>>, 0)>> >>,
    sorts |-> 2,
    sortedConstants |-> Arr(<< <<0>>, <<1, 2>> >>),
    sortedFunctions |-> Arr(<< <<>>, <<>> >>),
    functionBounds |-> Arr(<< Arr(<<1>>), Arr(<<2>>), Arr(<<2>>) >>),
    predicateBounds |-> Arr(<< Arr(<<Inf, Inf>>), Arr(<<1>>), Arr(<<2>>) >>) ]

\* sort 0 = {a} with bound 1 and h : sort 0 -> sort 0, sort 1 unbounded with
\* g : sort 0 -> sort 1:  h(a) = a,  g(x) != y | g(z) != y | x = z
Skips ==
  [ name |-> "Skips", epr |-> FALSE,
    functionArity |-> Arr(<<0, 1, 1>>), predicateArity |-> Arr(<<2>>),
    deletedFunctions |-> {}, deletedPredicates |-> {},
    input |-> << <<Def(FALSE, 0, <<>>, 0), Def(TRUE, 1, <<0>>, 0)>>,
                 <<Def(FALSE, 2, <<0>>, 1), Def(FALSE, 2, <<2>>, 1), Eq2(TRUE, 0, 2)>> >>,
    sorts |-> 2,
    sortedConstants |-> Arr(<< <<0>>, <<>> >>),
    sortedFunctions |-> Arr(<< <<1>>, <<2>> >>),
    functionBounds |-> Arr(<< Arr(<<1>>), Arr(<<1, 1>>), Arr(<<Inf, 1>>) >>),
    predicateBounds |-> Arr(<< Arr(<<Inf, Inf>>) >>) ]

Problems ==
  {Skips, EprTwoSorts, Eliminated, Cycle, TwoSorts, Epr, Propositional, Distinct, NoConstant, TwoUnary, Binary,
   BoundedRange, Singleton, AllEqual, Injective, Mixed, ThreeConstants}

(***************************************************************************)
(* Options (Shell::Options as read by the constructor and by reset).       *)
(***************************************************************************)
WidgetOrders == {"FUNCTION_FIRST", "ARGUMENT_FIRST", "DIAGONAL"}

\* fmbSymmetryOrderSymbols; PREPROCESSED_USAGE differs from INPUT_USAGE only in
\* keeping the usage counts the signature came with
SymbolOrders == {"OCCURENCE", "INPUT_USAGE"}

\* fmbSymmetryRatio as a fraction num/den
SymmetryRatios == {[num |-> 0, den |-> 1], [num |-> 1, den |-> 2], [num |-> 1, den |-> 1]}

StartSizes == (1..MaxStart) \cup {OverflowStart, UINT_MAX}

VARIABLES
  prob,                 \* the input problem (Problem& prb, env.signature, env.property)
  opt,                  \* the options
  groundClauses,        \* _groundClauses
  clauses,              \* _clauses
  clauseBounds,         \* _clauseBounds: per clause (by position in clauses) the variable bounds
  maxModelSize,         \* _maxModelSize
  constantCount,        \* _constantCount
  f_offsets, p_offsets, \* the layout of the propositional variables
  solver,               \* _solver: NoSolver or [size, varCnt, clauses]
  sortedGroundedTerms,  \* _sortedGroundedTerms
  clausesToBeAdded,     \* _clausesToBeAdded: the clause groups in the buffer
  pc,                   \* position in init() / runImpl()
  modelSize,            \* runImpl's modelSize
  satResult,            \* runImpl's satResult
  result,               \* what runImpl returned
  timeLimitReached,     \* env.timeLimitReached()
  trace,                \* history: what was done for which size, in order
  loop,                 \* addNewInstances in progress: its clause, grounding, satClauseLits
  model,                \* the FiniteModel onModelFound has filled
  lgl                   \* a LingelingInterfacing object and the calls made on it

vars == <<prob, opt, groundClauses, clauses, clauseBounds, maxModelSize, constantCount,
          f_offsets, p_offsets, solver, sortedGroundedTerms, clausesToBeAdded,
          pc, modelSize, satResult, result, timeLimitReached, trace, loop, model, lgl>>

NoSolver == [size |-> 0, varCnt |-> 0, clauses |-> <<>>, null |-> TRUE]

Functions == DOMAIN prob.functionArity
Predicates == DOMAIN prob.predicateArity
functionArity(f) == prob.functionArity[f]
predicateArity(p) == prob.predicateArity[p]
del_f(f) == f \in prob.deletedFunctions
del_p(p) == p \in prob.deletedPredicates
functionBounds(f) == prob.functionBounds[f]
predicateBounds(p) == prob.predicateBounds[p]

\* the constructor: _maxArity is the largest arity of any function of the signature
maxArity ==
  IF Functions = {} THEN 0
  ELSE CHOOSE m \in {functionArity(f) : f \in Functions} :
         \A f \in Functions : functionArity(f) <= m

(***************************************************************************)
(* reset(size): the layout.  The double pow(size, e) is converted to       *)
(* unsigned; a value above UINT_MAX is outside the range of the type and   *)
(* the conversion is undefined: builds truncate it or saturate.            *)
(***************************************************************************)
\* size^e, cut off above UINT_MAX + 1, and size^e modulo UINT_MAX + 1
RECURSIVE PowCut(_, _)
PowCut(size, e) == IF e = 0 THEN 1 ELSE Min(size * PowCut(size, e - 1), UINT_MAX + 1)

RECURSIVE PowMod(_, _)
PowMod(size, e) == IF e = 0 THEN 1 ELSE Wrap(size * PowMod(size, e - 1))

PowToUnsigned(size, e) ==
  IF PowCut(size, e) <= UINT_MAX THEN {PowCut(size, e)} ELSE {PowMod(size, e), UINT_MAX}

\* faulty variant: a function gets one variable per tuple and image, no more
FunctionBlockTight(size, f) == PowToUnsigned(size, functionArity(f) + 1)

\* the block reset reserves for function f and for predicate p
FunctionBlock(size, f) == PowToUnsigned(size, functionArity(f) + 2)
PredicateBlock(size, p) == PowToUnsigned(size, predicateArity(p) + 1)

\* the overflow test of reset
Overflows(add, offsets) == UINT_MAX - add < offsets

\* the loop over the predicates 1 .. predicates()-1; st = [ok, offsets, f_offsets, p_offsets]
RECURSIVE LayoutPredicates(_, _, _)
LayoutPredicates(size, p, st) ==
  IF p \notin Predicates THEN {st}
  ELSE IF del_p(p) THEN LayoutPredicates(size, p + 1, st)
  ELSE UNION { LET at == [st EXCEPT !.p_offsets[p] = st.offsets]
               IN  IF Overflows(add, st.offsets)
                   THEN {[at EXCEPT !.ok = FALSE]}
                   ELSE LayoutPredicates(size, p + 1, [at EXCEPT !.offsets = st.offsets + add])
             : add \in PredicateBlock(size, p) }

\* the loop over the functions 0 .. functions()-1, followed by the predicates
RECURSIVE LayoutFunctions(_, _, _)
LayoutFunctions(size, f, st) ==
  IF f \notin Functions THEN LayoutPredicates(size, 1, st)
  ELSE IF del_f(f) THEN LayoutFunctions(size, f + 1, st)
  ELSE UNION { LET at == [st EXCEPT !.f_offsets[f] = st.offsets]
               IN  IF Overflows(add, st.offsets)
                   THEN {[at EXCEPT !.ok = FALSE]}
                   ELSE LayoutFunctions(size, f + 1, [at EXCEPT !.offsets = st.offsets + add])
             : add \in FunctionBlock(size, f) }

\* the outcomes of the layout part of reset(size)
Layout(size) ==
  LayoutFunctions(size, 0,
    [ok |-> TRUE, offsets |-> 1, f_offsets |-> f_offsets, p_offsets |-> p_offsets])

\* _solver->ensureVarCount(offsets+1)
DeclaredVarCount(offsets) == Wrap(offsets + 1)

(***************************************************************************)
(* reset(size): the grounded terms of a sort.                              *)
(***************************************************************************)
GroundedTerm(f, g) == [f |-> f, grounding |-> g]

\* faulty variant: a function is listed whatever its range bound
RangeNeverTooSmall(f, size) == FALSE

\* "We skip f if its range is bounded to less than size"
RangeTooSmall(f, size) == functionBounds(f)[0] < size

\* "We skip f if its domain is bounded to less than g.grounding"
outOfBounds(f, g) ==
  \E i \in 0..(functionArity(f) - 1) : functionBounds(f)[i + 1] < g

\* _sortedSignature->sortedConstants[s] and sortedFunctions[s] as reset reads
\* them: the lists of the sort inference; what init sorts are copies of them,
\* locals of its loop over the sorts ("Stack<unsigned> sortedConstants = ...")
sortedConstants(s) == prob.sortedConstants[s]
sortedFunctions(s) == prob.sortedFunctions[s]

ConstantTerms(s) ==
  [c \in 1..Len(sortedConstants(s)) |-> GroundedTerm(sortedConstants(s)[c], 0)]

\* faulty variant: the diagonal stops at the last index instead of starting over
WidgetWithoutModulus(s, size, fi, m) ==
  LET f == sortedFunctions(s)[fi + 1]
      g == IF opt.widgetOrder = "DIAGONAL" THEN Min(1 + m + fi, size) ELSE m
  IN  [f |-> f, grounding |-> g, skip |-> RangeTooSmall(f, size) \/ outOfBounds(f, g)]

\* faulty variant: the diagonal does not move with the place of the function
WidgetWithoutOffset(s, size, fi, m) ==
  LET f == sortedFunctions(s)[fi + 1]
      g == IF opt.widgetOrder = "DIAGONAL" THEN 1 + (m % size) ELSE m
  IN  [f |-> f, grounding |-> g, skip |-> RangeTooSmall(f, size) \/ outOfBounds(f, g)]

\* the pair of the loops' body for function number fi (from 0) of the sort and
\* index m, and whether one of the two "continue" statements skips it
Widget(s, size, fi, m) ==
  LET f == sortedFunctions(s)[fi + 1]
      g == IF opt.widgetOrder = "DIAGONAL" THEN 1 + (Wrap(m + fi) % size) ELSE m
  IN  [f |-> f, grounding |-> g, skip |-> RangeTooSmall(f, size) \/ outOfBounds(f, g)]

\* the bodies in the order the loops run them: for(f) for(m) under FUNCTION_FIRST,
\* for(m) for(f) otherwise
WidgetSequence(s, size) ==
  LET nf == Len(sortedFunctions(s))
  IN  [k \in 1..(nf * size) |->
         IF opt.widgetOrder = "FUNCTION_FIRST"
         THEN Widget(s, size, (k - 1) \div size, ((k - 1) % size) + 1)
         ELSE Widget(s, size, (k - 1) % nf, ((k - 1) \div nf) + 1)]

NotSkipped(w) == ~w.skip

FunctionTerms(s, size) ==
  LET kept == SelectSeq(WidgetSequence(s, size), NotSkipped)
  IN  [k \in 1..Len(kept) |-> GroundedTerm(kept[k].f, kept[k].grounding)]

GroundedTermsOfSort(s, size) == ConstantTerms(s) \o FunctionTerms(s, size)

BuildGroundedTerms(size) ==
  [s \in 0..(prob.sorts - 1) |-> GroundedTermsOfSort(s, size)]

(***************************************************************************)
(* getSATLiteral: var = offset + sum of mult * (grounding[i] - 1), with    *)
(* mult = size^i, in unsigned arithmetic.                                  *)
(***************************************************************************)
RECURSIVE VarSum(_, _, _)
VarSum(grounding, i, size) ==
  IF i \notin DOMAIN grounding THEN 0
  ELSE Wrap(PowMod(size, i) * Wrap(grounding[i] + UINT_MAX))
         + VarSum(grounding, i + 1, size)

SATVar(f, grounding, isFunction, size) ==
  Wrap((IF isFunction THEN f_offsets[f] ELSE p_offsets[f]) + VarSum(grounding, 0, size))

\* SATLiteral(var, polarity); f, isFunction and grounding record the fact the
\* literal was made for
getSATLiteral(f, grounding, polarity, isFunction, size) ==
  [var |-> SATVar(f, grounding, isFunction, size), pol |-> polarity,
   f |-> f, isFunction |-> isFunction, grounding |-> grounding]

(***************************************************************************)
(* The encoder.  A SAT clause is the set of its literals.                  *)
(***************************************************************************)
\* addSATClause over the clauses a group builds: removeDuplicateLiterals
\* returns no clause for a clause with a variable in both polarities
Tautology(c) == \E l1, l2 \in c : l1.var = l2.var /\ l1.pol # l2.pol
addSATClause(cs) == {c \in cs : ~Tautology(c)}

\* the groundings the counter loops ("instanceLabel", "newFuncLabel",
\* "newTotalLabel") reach: position i starts at 1, the last one at 0, and goes
\* up to mins[i]; a position that is at mins[i] goes back to 1 and carries
Counter(mins) ==
  LET k == ArrLen(mins)
      top == IF \E i \in DOMAIN mins : mins[i] = 0 THEN UINT_MAX
             ELSE CHOOSE m \in {mins[i] : i \in DOMAIN mins} :
                    \A i \in DOMAIN mins : mins[i] <= m
  IN  {g \in [0..(k - 1) -> 0..top] :
         /\ \A i \in DOMAIN mins : mins[i] = 0 \/ g[i] \in 1..mins[i]
         /\ ~(mins[k - 1] = 0 /\ \A i \in 0..(k - 2) : g[i] = 1)}

EmptyGrounding == Arr(<<>>)

\* faulty variant: every literal of a ground clause is made positive
GroundClausesAllPositive ==
  addSATClause(
    {{getSATLiteral(groundClauses[ci][i].f, EmptyGrounding, TRUE, FALSE, 0)
        : i \in 1..Len(groundClauses[ci])} : ci \in 1..Len(groundClauses)})

addGroundClauses ==
  addSATClause(
    {{getSATLiteral(groundClauses[ci][i].f, EmptyGrounding, groundClauses[ci][i].pos, FALSE, 0)
        : i \in 1..Len(groundClauses[ci])} : ci \in 1..Len(groundClauses)})

\* "Skip instance": a two-variable equality the grounding makes true
SkipInstance(c, g) ==
  \E i \in 1..Len(c) :
    isTwoVarEquality(c[i]) /\ (c[i].pos <=> (g[c[i].args[1]] = g[c[i].args[2]]))

\* the arguments of a literal under the grounding of the clause's variables
use(l, g) == [j \in 0..(Len(l.args) - 1) |-> g[l.args[j + 1]]]

\* the SAT clause of an instance: two-variable equalities that are false are skipped
Instance(c, g, size) ==
  {getSATLiteral(c[i].f, use(c[i], g), c[i].pos, isEquality(c[i]), size)
     : i \in {j \in 1..Len(c) : ~isTwoVarEquality(c[j])}}

addNewInstances(size) ==
  addSATClause(UNION {
    LET c == clauses[ci]
        mins == [i \in 0..(varCnt(c) - 1) |-> Min(clauseBounds[ci][i], size)]
    IN  {Instance(c, g, size) : g \in {h \in Counter(mins) : ~SkipInstance(c, h)}}
    : ci \in 1..Len(clauses)})

\* f(use) = image
FunctionLiteral(f, args, image, polarity, size) ==
  getSATLiteral(f, [k \in 0..functionArity(f) |->
                      IF k = functionArity(f) THEN image ELSE args[k]],
                polarity, TRUE, size)

addNewFunctionalDefs(size) ==
  addSATClause(UNION {
    LET arity == functionArity(f)
        mins == [i \in 0..(arity + 1) |->
                   IF i < 2 THEN Min(functionBounds(f)[0], size)
                   ELSE Min(functionBounds(f)[i - 1], size)]
    IN  {{FunctionLiteral(f, [k \in 0..(arity - 1) |-> g[k + 2]], g[0], FALSE, size),
          FunctionLiteral(f, [k \in 0..(arity - 1) |-> g[k + 2]], g[1], FALSE, size)}
           : g \in {h \in Counter(mins) : h[0] < h[1]}}
    : f \in {f \in Functions : ~del_f(f)}})

\* gt.f(gt.grounding, ..., gt.grounding) = image
TermLiteral(gt, image, polarity, size) ==
  FunctionLiteral(gt.f, [k \in 0..(functionArity(gt.f) - 1) |-> gt.grounding],
                  image, polarity, size)

addNewSymmetryOrderingAxioms(size, groundedTerms) ==
  IF Len(groundedTerms) < size THEN {}
  ELSE addSATClause({{TermLiteral(groundedTerms[size], i, TRUE, size) : i \in 1..size}})

\* maxSize as a float: the largest unsigned is rounded up
ToFloat(x) == IF x = UINT_MAX THEN UINT_MAX + 1 ELSE x

FloatConversions == {"truncate", "saturate"}

\* "unsigned w = _symmetryRatio * maxSize; if(w > length) w = length": a product
\* above UINT_MAX is outside the range of unsigned and its conversion undefined
Window(maxSize, length, conversion) ==
  LET x == (opt.symmetryRatio.num * ToFloat(maxSize)) \div opt.symmetryRatio.den
      w == IF x <= UINT_MAX THEN x
           ELSE IF conversion = "truncate" THEN Wrap(x) ELSE UINT_MAX
  IN  IF w > length THEN length ELSE w

\* faulty variant: the term just before G[i] is left out of the clause of G[i]
CanonicityWithoutPredecessor(size, groundedTerms, maxSize, conversion) ==
  IF size <= 1 THEN {}
  ELSE addSATClause(
         {{TermLiteral(groundedTerms[i + 1], size, FALSE, size)}
            \cup {TermLiteral(groundedTerms[j + 1], size - 1, TRUE, size) : j \in 0..(i - 2)}
          : i \in 1..(Window(maxSize, Len(groundedTerms), conversion) - 1)})

addNewSymmetryCanonicityAxioms(size, groundedTerms, maxSize, conversion) ==
  IF size <= 1 THEN {}
  ELSE addSATClause(
         {{TermLiteral(groundedTerms[i + 1], size, FALSE, size)}
            \cup {TermLiteral(groundedTerms[j + 1], size - 1, TRUE, size) : j \in 0..(i - 1)}
          : i \in 1..(Window(maxSize, Len(groundedTerms), conversion) - 1)})

\* for every sort: the ordering axiom and the canonicity axioms, the latter
\* with the model-size upper bound as maxSize
addNewSymmetryAxioms(size, conversion) ==
  UNION {addNewSymmetryOrderingAxioms(size, sortedGroundedTerms[s])
           \cup addNewSymmetryCanonicityAxioms(size, sortedGroundedTerms[s],
                                               maxModelSize, conversion)
         : s \in 0..(prob.sorts - 1)}

\* faulty variant: the largest image is left out of every totality clause
TotalityWithoutLastImage(size) ==
  addSATClause(UNION {
    LET arity == functionArity(f)
        range == 1..(Min(size, functionBounds(f)[0]) - 1)
        mins == [i \in 0..(arity - 1) |-> Min(functionBounds(f)[i + 1], size)]
    IN  IF arity = 0
        THEN {{FunctionLiteral(f, EmptyGrounding, e, TRUE, size) : e \in range}}
        ELSE {{FunctionLiteral(f, g, e, TRUE, size) : e \in range} : g \in Counter(mins)}
    : f \in {f \in Functions : ~del_f(f)}})

addNewTotalityDefs(size) ==
  addSATClause(UNION {
    LET arity == functionArity(f)
        range == 1..Min(size, functionBounds(f)[0])
        mins == [i \in 0..(arity - 1) |-> Min(functionBounds(f)[i + 1], size)]
    IN  IF arity = 0
        THEN {{FunctionLiteral(f, EmptyGrounding, e, TRUE, size) : e \in range}}
        ELSE {{FunctionLiteral(f, g, e, TRUE, size) : e \in range} : g \in Counter(mins)}
    : f \in {f \in Functions : ~del_f(f)}})

(***************************************************************************)
(* init(): the clause lists, _maxModelSize, _constantCount, clause bounds. *)
(***************************************************************************)
\* the arguments of all literals of c, left to right
RECURSIVE AllArgs(_)
AllArgs(c) == IF c = <<>> THEN <<>> ELSE Head(c).args \o AllArgs(Tail(c))

\* the distinct variables of a sequence in the order of their first occurrence
RECURSIVE FirstOccurrences(_, _)
FirstOccurrences(xs, seen) ==
  IF xs = <<>> THEN <<>>
  ELSE IF Head(xs) \in seen THEN FirstOccurrences(Tail(xs), seen)
  ELSE <<Head(xs)>> \o FirstOccurrences(Tail(xs), seen \cup {Head(xs)})

\* Renaming::normalizeVariables and apply over the literals of a clause:
\* the variables become 0, 1, ... in the order of their first occurrence
normalizeVariables(c) ==
  LET order == FirstOccurrences(AllArgs(c), {})
      new(x) == (CHOOSE i \in 1..Len(order) : order[i] = x) - 1
  IN  [i \in 1..Len(c) |->
         [c[i] EXCEPT !.args = [j \in 1..Len(c[i].args) |-> new(c[i].args[j])]]]

\* posEqs: the leading positive two-variable equalities between different variables
RECURSIVE posEqs(_)
posEqs(c) ==
  IF c = <<>> THEN 0
  ELSE IF isTwoVarEquality(Head(c)) /\ Head(c).pos /\ Head(c).args[1] # Head(c).args[2]
       THEN 1 + posEqs(Tail(c))
       ELSE 0

\* faulty variant: only the first clause of positive equalities sets _maxModelSize
RECURSIVE ScanInputKeepingFirst(_, _)
ScanInputKeepingFirst(input, st) ==
  IF input = <<>> THEN st
  ELSE LET c == Head(input)
       IN  IF varCnt(c) = 0
           THEN ScanInputKeepingFirst(Tail(input), [st EXCEPT !.ground = <<c>> \o st.ground])
           ELSE ScanInputKeepingFirst(Tail(input),
                  [st EXCEPT !.nonground = <<c>> \o st.nonground,
                             !.max = IF posEqs(c) = Len(c) /\ st.max = UINT_MAX
                                     THEN varCnt(c) ELSE st.max])

\* the scan of the input clauses: lists built with cons, _maxModelSize lowered
RECURSIVE ScanInput(_, _)
ScanInput(input, st) ==
  IF input = <<>> THEN st
  ELSE LET c == Head(input)
       IN  IF varCnt(c) = 0
           THEN ScanInput(Tail(input), [st EXCEPT !.ground = <<c>> \o st.ground])
           ELSE ScanInput(Tail(input),
                  [st EXCEPT !.nonground = <<c>> \o st.nonground,
                             !.max = IF posEqs(c) = Len(c) /\ varCnt(c) < st.max
                                     THEN varCnt(c) ELSE st.max])

\* the bound a literal gives to the variable at position j (from 1) of its arguments
ArgBound(l, j) ==
  IF l.kind = "def"
  THEN (IF j = Len(l.args) THEN functionBounds(l.f)[0] ELSE functionBounds(l.f)[j])
  ELSE predicateBounds(l.f)[j - 1]

\* the arguments of one literal, in the order init visits them: for f(xs) = y
\* first y, then xs
VisitOrder(l) ==
  IF l.kind = "def" THEN <<Len(l.args)>> \o [j \in 1..(Len(l.args) - 1) |-> j]
  ELSE [j \in 1..Len(l.args) |-> j]

RECURSIVE BoundArgs(_, _, _)
BoundArgs(l, js, bounds) ==
  IF js = <<>> THEN bounds
  ELSE LET v == l.args[Head(js)]
       IN  BoundArgs(l, Tail(js),
             IF bounds[v] # 0 THEN bounds ELSE [bounds EXCEPT ![v] = ArgBound(l, Head(js))])

RECURSIVE BoundLiterals(_, _)
BoundLiterals(c, bounds) ==
  IF c = <<>> THEN bounds
  ELSE IF isTwoVarEquality(Head(c)) THEN BoundLiterals(Tail(c), bounds)
  ELSE BoundLiterals(Tail(c), BoundArgs(Head(c), VisitOrder(Head(c)), bounds))

\* "Set up clause bounds"
ClauseBounds(c) == BoundLiterals(c, [v \in 0..(varCnt(c) - 1) |-> 0])

\* usageCnt after "reset usage counts ... do them again": the literals
\* f(xs) = y and f(xs) != y of the clauses cls with f as head
usageCnt(f, cls) ==
  Cardinality({ij \in UNION {{<<i, j>> : j \in 1..Len(cls[i])} : i \in 1..Len(cls)} :
                 /\ isEquality(cls[ij[1]][ij[2]])
                 /\ ~isTwoVarEquality(cls[ij[1]][ij[2]])
                 /\ cls[ij[1]][ij[2]].f = f})

\* FMBSymmetryFunctionComparator over a list: no symbol before one used more often
Descending(list, cls) ==
  \A i, j \in 1..Len(list) : i < j => usageCnt(list[i], cls) >= usageCnt(list[j], cls)

\* sort<FMBSymmetryFunctionComparator>(begin, end): the orders the sort can
\* leave the elements of list in
Sorted(list, cls) ==
  {p \in [1..Len(list) -> {list[i] : i \in 1..Len(list)}] :
     /\ \A i \in 1..Len(list) : \E j \in 1..Len(list) : p[j] = list[i]
     /\ Descending(p, cls)}

LiveConstants == {f \in Functions : ~del_f(f) /\ functionArity(f) = 0}

init ==
  /\ pc = "constructed"
  /\ pc' = "initialised"
  /\ IF ~opt.complete
     THEN UNCHANGED <<groundClauses, clauses, clauseBounds, maxModelSize, constantCount>>
     ELSE LET st == ScanInput(prob.input, [ground |-> <<>>, nonground |-> <<>>,
                                           max |-> maxModelSize])
              cls == [i \in 1..Len(st.nonground) |-> normalizeVariables(st.nonground[i])]
          IN  /\ groundClauses' = st.ground
              /\ clauses' = cls
              /\ maxModelSize' = st.max
              /\ constantCount' = Cardinality(LiveConstants)
              /\ clauseBounds' = [i \in 1..Len(cls) |-> ClauseBounds(cls[i])]
  /\ UNCHANGED <<lgl, model, loop, prob, opt, f_offsets, p_offsets, solver, sortedGroundedTerms,
                 clausesToBeAdded, modelSize, satResult, result, timeLimitReached, trace>>

(***************************************************************************)
(* runImpl(): the search loop.  The clause buffer holds one entry per      *)
(* clause group the encoder generated, tagged with the size it was         *)
(* generated for; the clauses of a group are defined by the encoder.       *)
(***************************************************************************)
Ev(e, n) == [ev |-> e, size |-> n, ok |-> TRUE, verdict |-> "NONE", offsets |-> 0]

\* reset(n) was called and returned out.ok, having counted out.offsets
ResetEv(n, out) == [Ev("reset", n) EXCEPT !.ok = out.ok, !.offsets = out.offsets]

\* the round for n begins; ok: the time limit is not reached
TryEv(n) == [Ev("try", n) EXCEPT !.ok = ~timeLimitReached]

Groups == <<"GROUND", "INSTANCES", "FUNC_DEFS", "SYM_DEFS", "TOTAL_DEFS">>

\* faulty variant: the solver of the round before is kept and only resized
ResetKeepingSolver(size, out) ==
  /\ f_offsets' = out.f_offsets
  /\ p_offsets' = out.p_offsets
  /\ IF out.ok
     THEN /\ solver' = [solver EXCEPT !.size = size, !.null = FALSE,
                                      !.varCnt = DeclaredVarCount(out.offsets)]
          /\ sortedGroundedTerms' = BuildGroundedTerms(size)
     ELSE UNCHANGED <<solver, sortedGroundedTerms>>

\* the statements of reset(size) with layout outcome out
Reset(size, out) ==
  /\ f_offsets' = out.f_offsets
  /\ p_offsets' = out.p_offsets
  /\ IF out.ok
     THEN /\ solver' = [size |-> size, varCnt |-> DeclaredVarCount(out.offsets),
                        clauses |-> <<>>, null |-> FALSE]
          /\ sortedGroundedTerms' = BuildGroundedTerms(size)
     ELSE UNCHANGED <<solver, sortedGroundedTerms>>

\* "if(env.property->category()==Property::EPR || _maxArity==0)"
MostConstantsOfASort ==
  LET counts == {Len(prob.sortedConstants[s]) : s \in 0..(prob.sorts - 1)} \cup {1}
  IN  CHOOSE m \in counts : \A c \in counts : c <= m

\* faulty variant: the bound is lowered to the number of all constants
LoweredToConstantCount ==
  IF (prob.epr \/ maxArity = 0) /\ constantCount < maxModelSize
  THEN constantCount ELSE maxModelSize

LoweredMaxModelSize ==
  IF (prob.epr \/ maxArity = 0) /\ MostConstantsOfASort < maxModelSize
  THEN MostConstantsOfASort ELSE maxModelSize

\* faulty variant: the fixed start size is used whatever fmbStartWithConstants says
StartSizeIgnoringConstants == opt.startModelSize

\* "unsigned modelSize = _useConstantsAsStart ? _constantCount : _startModelSize"
StartSize == IF opt.useConstantsAsStart THEN constantCount ELSE opt.startModelSize

\* "if(!_isComplete) return UNKNOWN"
GiveUp ==
  /\ pc = "initialised"
  /\ ~opt.complete
  /\ result' = "UNKNOWN"
  /\ pc' = "done"
  /\ UNCHANGED <<lgl, model, loop, prob, opt, groundClauses, clauses, clauseBounds, maxModelSize,
                 constantCount, f_offsets, p_offsets, solver, sortedGroundedTerms,
                 clausesToBeAdded, modelSize, satResult, timeLimitReached, trace>>

\* the prologue up to ALWAYS(reset(modelSize)); a debug build stops in a failed
\* ALWAYS, a release build ignores what reset returned
Begin ==
  /\ pc = "initialised"
  /\ opt.complete
  /\ maxModelSize' = LoweredMaxModelSize
  /\ modelSize' = StartSize
  /\ \E out \in Layout(StartSize) :
       /\ Reset(StartSize, out)
       /\ trace' = Append(trace, ResetEv(StartSize, out))
       /\ \/ /\ pc' = "loop"
             /\ UNCHANGED result
          \/ /\ ~out.ok
             /\ pc' = "done"
             /\ result' = "ASSERTION_VIOLATION"
  /\ UNCHANGED <<lgl, model, loop, prob, opt, groundClauses, clauses, clauseBounds, constantCount,
                 clausesToBeAdded, satResult, timeLimitReached>>

\* "TRYING n": the wall-clock check at the head of a round
TimeLimit ==
  /\ pc = "loop"
  /\ timeLimitReached
  /\ trace' = Append(trace, TryEv(modelSize))
  /\ result' = "TIME_LIMIT"
  /\ pc' = "done"
  /\ UNCHANGED <<lgl, model, loop, prob, opt, groundClauses, clauses, clauseBounds, maxModelSize,
                 constantCount, f_offsets, p_offsets, solver, sortedGroundedTerms,
                 clausesToBeAdded, modelSize, satResult, timeLimitReached>>

\* faulty variant: the round does not look at the clock
EncodeWithoutTimeCheck ==
  /\ pc = "loop"
  /\ clausesToBeAdded' = clausesToBeAdded \o
       [i \in 1..Len(Groups) |-> [group |-> Groups[i], size |-> modelSize]]
  /\ trace' = Append(Append(trace, TryEv(modelSize)), Ev("encode", modelSize))
  /\ pc' = "solve"
  /\ UNCHANGED <<lgl, model, loop, prob, opt, groundClauses, clauses, clauseBounds, maxModelSize,
                 constantCount, f_offsets, p_offsets, solver, sortedGroundedTerms,
                 modelSize, satResult, result, timeLimitReached>>

\* the five encoder calls of a round
Encode ==
  /\ pc = "loop"
  /\ ~timeLimitReached
  /\ clausesToBeAdded' = clausesToBeAdded \o
       [i \in 1..Len(Groups) |-> [group |-> Groups[i], size |-> modelSize]]
  /\ trace' = Append(Append(trace, TryEv(modelSize)), Ev("encode", modelSize))
  /\ pc' = "solve"
  /\ UNCHANGED <<lgl, model, loop, prob, opt, groundClauses, clauses, clauseBounds, maxModelSize,
                 constantCount, f_offsets, p_offsets, solver, sortedGroundedTerms,
                 modelSize, satResult, result, timeLimitReached>>

Verdicts == {"SATISFIABLE", "UNSATISFIABLE", "UNKNOWN"}

\* _solver->addClausesIter(...) and _solver->solve()
Solve ==
  /\ pc = "solve"
  /\ ~solver.null
  /\ \E v \in Verdicts :
       /\ satResult' = v
       /\ trace' = Append(trace, [Ev("solve", modelSize) EXCEPT !.verdict = v])
  /\ solver' = [solver EXCEPT !.clauses = solver.clauses \o clausesToBeAdded]
  /\ pc' = "verdict"
  /\ UNCHANGED <<lgl, model, loop, prob, opt, groundClauses, clauses, clauseBounds, maxModelSize,
                 constantCount, f_offsets, p_offsets, sortedGroundedTerms,
                 clausesToBeAdded, modelSize, result, timeLimitReached>>

\* the first reset failed and was ignored: there is no solver to add clauses to
NoSolverCrash ==
  /\ pc = "solve"
  /\ solver.null
  /\ result' = "CRASH"
  /\ pc' = "done"
  /\ UNCHANGED <<lgl, model, loop, prob, opt, groundClauses, clauses, clauseBounds, maxModelSize,
                 constantCount, f_offsets, p_offsets, solver, sortedGroundedTerms,
                 clausesToBeAdded, modelSize, satResult, timeLimitReached, trace>>

\* faulty variant: an unsatisfiable round refutes whatever the bound is
VerdictWithoutBound(v) ==
  IF v = "SATISFIABLE" THEN "SATISFIABLE"
  ELSE IF modelSize = UINT_MAX THEN "UNKNOWN"
  ELSE "REFUTATION"

\* what runImpl returns after solve() without trying another size
Verdict(v) ==
  IF v = "SATISFIABLE" THEN "SATISFIABLE"
  ELSE IF modelSize = UINT_MAX THEN "UNKNOWN"
  ELSE IF modelSize >= maxModelSize THEN "REFUTATION"
  ELSE "NONE"

\* "if(satResult == SATISFIABLE) ... if(modelSize >= _maxModelSize) ..."
Return ==
  /\ pc = "verdict"
  /\ Verdict(satResult) # "NONE"
  /\ result' = Verdict(satResult)
  /\ trace' = IF satResult = "SATISFIABLE"
              THEN Append(trace, Ev("onModelFound", modelSize)) ELSE trace
  /\ pc' = "done"
  /\ UNCHANGED <<lgl, model, loop, prob, opt, groundClauses, clauses, clauseBounds, maxModelSize,
                 constantCount, f_offsets, p_offsets, solver, sortedGroundedTerms,
                 clausesToBeAdded, modelSize, satResult, timeLimitReached>>

\* the buffer is emptied, modelSize++, reset(modelSize)
NextSize ==
  /\ pc = "verdict"
  /\ Verdict(satResult) = "NONE"
  /\ modelSize < MaxSize
  /\ clausesToBeAdded' = <<>>
  /\ modelSize' = modelSize + 1
  /\ \E out \in Layout(modelSize + 1) :
       /\ Reset(modelSize + 1, out)
       /\ trace' = Append(trace, ResetEv(modelSize + 1, out))
       /\ IF out.ok
          THEN pc' = "loop" /\ UNCHANGED result
          ELSE pc' = "done" /\ result' = "UNKNOWN"
  /\ UNCHANGED <<lgl, model, loop, prob, opt, groundClauses, clauses, clauseBounds, maxModelSize,
                 constantCount, satResult, timeLimitReached>>

\* the clock: the time limit is reached at some moment and stays reached
TimePasses ==
  /\ pc \in {"initialised", "loop", "solve", "verdict"}
  /\ ~timeLimitReached
  /\ timeLimitReached' = TRUE
  /\ UNCHANGED <<lgl, model, loop, prob, opt, groundClauses, clauses, clauseBounds, maxModelSize,
                 constantCount, f_offsets, p_offsets, solver, sortedGroundedTerms,
                 clausesToBeAdded, pc, modelSize, satResult, result, trace>>

Options ==
  [ startModelSize : StartSizes, useConstantsAsStart : BOOLEAN, complete : BOOLEAN,
    widgetOrder : WidgetOrders, symmetryRatio : SymmetryRatios,
    symbolOrder : SymbolOrders ]

\* addNewInstances is not running
NotInLoop ==
  [at |-> "idle", clause |-> 0, grounding |-> <<>>, visits |-> 0, seen |-> {},
   visited |-> FALSE, skipped |-> FALSE, built |-> <<>>, pushed |-> {}]

\* onModelFound has not run
NoModel == [extracted |-> FALSE, assertion |-> "none", functions |-> {}, predicates |-> {}]

\* LingelingInterfacing(opts, generateProofs): _status(SATISFIABLE), no clause,
\* no assumption; passed is the history of the clauses handed to addClause
NewLingeling ==
  [status |-> "SATISFIABLE", assumptions |-> <<>>, added |-> {}, passed |-> {},
   failed |-> {}, last |-> "new", calls |-> 0]

\* the state after the constructor
Constructed ==
  /\ groundClauses = <<>>
  /\ clauses = <<>>
  /\ clauseBounds = <<>>
  /\ maxModelSize = UINT_MAX
  /\ constantCount = 0
  /\ f_offsets = [f \in Functions |-> 0]
  /\ p_offsets = [p \in Predicates |-> 0]
  /\ solver = NoSolver
  /\ sortedGroundedTerms = <<>>
  /\ clausesToBeAdded = <<>>
  /\ pc = "constructed"
  /\ modelSize = 0
  /\ satResult = "UNKNOWN"
  /\ result = "NONE"
  /\ timeLimitReached = FALSE
  /\ trace = <<>>
  /\ loop = NotInLoop
  /\ model = NoModel
  /\ lgl = NewLingeling

Init ==
  /\ prob \in Problems
  /\ opt \in {o \in Options : o.widgetOrder = "FUNCTION_FIRST" /\ o.symmetryRatio.num = o.symmetryRatio.den}
  /\ Constructed

Next ==
  \/ init
  \/ GiveUp
  \/ Begin
  \/ TimeLimit
  \/ Encode
  \/ Solve
  \/ NoSolverCrash
  \/ Return
  \/ NextSize
  \/ TimePasses

Spec == Init /\ [][Next]_vars

(***************************************************************************)
(* The rounds clause by clause, for small sizes and before the time limit: *)
(* the buffer entry of a group holds the clauses of the group, and the     *)
(* solver's verdict is the satisfiability of what it was given where the   *)
(* assignments can be enumerated.                                          *)
(***************************************************************************)
\* the five encoder calls of a round, in the order of runImpl
EncodeClauses ==
  /\ pc = "loop"
  /\ ~timeLimitReached
  /\ \E conversion \in FloatConversions :
       clausesToBeAdded' = clausesToBeAdded \o
         << [group |-> "GROUND", size |-> modelSize, clauses |-> addGroundClauses],
            [group |-> "INSTANCES", size |-> modelSize, clauses |-> addNewInstances(modelSize)],
            [group |-> "FUNC_DEFS", size |-> modelSize,
             clauses |-> addNewFunctionalDefs(modelSize)],
            [group |-> "SYM_DEFS", size |-> modelSize,
             clauses |-> addNewSymmetryAxioms(modelSize, conversion)],
            [group |-> "TOTAL_DEFS", size |-> modelSize,
             clauses |-> addNewTotalityDefs(modelSize)] >>
  /\ trace' = Append(Append(trace, TryEv(modelSize)), Ev("encode", modelSize))
  /\ pc' = "solve"
  /\ UNCHANGED <<lgl, model, loop, prob, opt, groundClauses, clauses, clauseBounds, maxModelSize,
                 constantCount, f_offsets, p_offsets, solver, sortedGroundedTerms,
                 modelSize, satResult, result, timeLimitReached>>

\* the clauses in the buffer
Emitted == UNION {clausesToBeAdded[i].clauses : i \in 1..Len(clausesToBeAdded)}

\* A, the set of the true variables, satisfies clause c
Satisfies(A, c) == \E l \in c : (l.var \in A) <=> l.pol

\* the assignments to the declared variables that satisfy the buffer
Models == {A \in SUBSET (1..solver.varCnt) : \A c \in Emitted : Satisfies(A, c)}

\* the variables that occur in the buffer; the others are free
UsedVars == {l.var : l \in UNION Emitted}

\* the verdict is computed when the assignments to the used variables can be listed
Decidable == Cardinality(UsedVars) <= MaxSatVars

Satisfiable == \E A \in SUBSET UsedVars : \A c \in Emitted : Satisfies(A, c)

SolverVerdicts ==
  IF Decidable
  THEN {IF Satisfiable THEN "SATISFIABLE" ELSE "UNSATISFIABLE", "UNKNOWN"}
  ELSE Verdicts

\* _solver->addClausesIter(...) and _solver->solve()
SolveClauses ==
  /\ pc = "solve"
  /\ ~solver.null
  /\ \E v \in SolverVerdicts :
       /\ satResult' = v
       /\ trace' = Append(trace, [Ev("solve", modelSize) EXCEPT !.verdict = v,
                                                                !.ok = Decidable])
  /\ solver' = [solver EXCEPT !.clauses = solver.clauses \o clausesToBeAdded]
  /\ pc' = "verdict"
  /\ UNCHANGED <<lgl, model, loop, prob, opt, groundClauses, clauses, clauseBounds, maxModelSize,
                 constantCount, f_offsets, p_offsets, sortedGroundedTerms,
                 clausesToBeAdded, modelSize, result, timeLimitReached>>

(***************************************************************************)
(* onModelFound(modelSize): the interpretation read off the assignment A,  *)
(* the set of the true variables.  A fact [f, args, value] is one call of  *)
(* model.add...Definition.  No problem here has partially eliminated or    *)
(* trivial predicates or introduced symbols, and the definitions of the    *)
(* eliminated symbols mention live symbols only.                           *)
(***************************************************************************)
partiallyDeletedPredicates == {}

\* _deletedFunctions.get(f): f(x0, ...) = g(args), as g and its argument variables
deletedFunctionDefinition(f) ==
  IF prob.name = "Eliminated" /\ f = 3 THEN [f |-> 0, args |-> <<>>]
  ELSE [f |-> 1, args |-> <<0>>]

\* _deletedPredicates.get(p): ![..]: (p(x0, ...) <=> [~]q(args)), or $true
deletedPredicateDefinition(p) ==
  IF prob.name = "Eliminated" /\ p = 3 THEN [connective |-> "TRUE"]
  ELSE [connective |-> "FORALL", negated |-> TRUE, f |-> 1, args |-> <<0>>]

\* the argument tuples the loops at fModelLabel, pModelLabel, ffModelLabel and
\* ppModelLabel reach: none for arity 0, where i starts at arity-1 = UINT_MAX
ModelTuples(arity, n) ==
  IF arity = 0 THEN {} ELSE Counter([i \in 0..(arity - 1) |-> n])

WithImage(args, c) ==
  [k \in 0..ArrLen(args) |-> IF k = ArrLen(args) THEN c ELSE args[k]]

Fact(f, args, value) == [f |-> f, args |-> args, value |-> value]

\* "Record interpretation of constants"
RecordedConstants(A, n) ==
  UNION {{Fact(f, EmptyGrounding, c) :
            c \in {d \in 1..n : SATVar(f, WithImage(EmptyGrounding, d), TRUE, n) \in A}}
         : f \in {g \in Functions : functionArity(g) = 0 /\ ~del_f(g)}}

\* "Record interpretation of functions"
RecordedFunctions(A, n) ==
  UNION {
    UNION {{Fact(f, args, c) : c \in {d \in 1..n : SATVar(f, WithImage(args, d), TRUE, n) \in A}}
           : args \in ModelTuples(functionArity(f), n)}
    : f \in {g \in Functions : functionArity(g) > 0 /\ ~del_f(g)}}

RecordedPredicate(p) == p >= 1 /\ ~del_p(p) /\ p \notin partiallyDeletedPredicates

\* "Record interpretation of prop symbols"
RecordedPropositions(A, n) ==
  {Fact(p, EmptyGrounding, SATVar(p, EmptyGrounding, FALSE, n) \in A) :
     p \in {q \in Predicates : predicateArity(q) = 0 /\ RecordedPredicate(q)}}

\* "Record interpretation of predicates"
RecordedPredicates(A, n) ==
  UNION {{Fact(p, args, SATVar(p, args, FALSE, n) \in A)
            : args \in ModelTuples(predicateArity(p), n)}
         : p \in {q \in Predicates : predicateArity(q) > 0 /\ RecordedPredicate(q)}}

\* the arguments of the defining term under the grounding of the variables
Substituted(def, grounding) == [j \in 0..(Len(def.args) - 1) |-> grounding[def.args[j + 1]]]

\* "Evaluate removed functions and constants": f from functions()-1 down to 2; a
\* term without a value in the model raises the exception that is caught
EvaluatedFunctions(live, n) ==
  UNION {
    LET def == deletedFunctionDefinition(f)
    IN  UNION {{Fact(f, grounding, x.value) :
                  x \in {y \in live : y.f = def.f /\ y.args = Substituted(def, grounding)}}
               : grounding \in ModelTuples(functionArity(f), n)}
    : f \in {g \in Functions : g > 1 /\ del_f(g)}}

\* "Evaluate removed propositions and predicates": f from predicates()-1 down to 2
EvaluatedPredicates(live, n) ==
  UNION {
    LET def == deletedPredicateDefinition(p)
    IN  UNION {
          IF def.connective = "TRUE" THEN {Fact(p, grounding, TRUE)}
          ELSE IF def.connective = "FALSE" THEN {Fact(p, grounding, FALSE)}
          ELSE {Fact(p, grounding, IF def.negated THEN ~x.value ELSE x.value) :
                  x \in {y \in live : y.f = def.f /\ y.args = Substituted(def, grounding)}}
          : grounding \in ModelTuples(predicateArity(p), n)}
    : p \in {q \in Predicates :
               q > 1 /\ (del_p(q) \/ q \in partiallyDeletedPredicates)}}

\* ASS(!found) and ASS(found) of the loops over the live functions
FailedAssertion(functions) ==
  IF \E x, y \in functions : x.f = y.f /\ x.args = y.args /\ x.value # y.value
  THEN "ASS(!found)"
  ELSE IF \E f \in Functions :
            functionArity(f) = 0 /\ ~del_f(f) /\ ~\E x \in functions : x.f = f
       THEN "ASS(found)"
       ELSE "none"

onModelFound(A, n) ==
  LET functions == RecordedConstants(A, n) \cup RecordedFunctions(A, n)
      predicates == RecordedPropositions(A, n) \cup RecordedPredicates(A, n)
  IN  [extracted |-> TRUE,
       assertion |-> FailedAssertion(functions),
       functions |-> functions \cup EvaluatedFunctions(functions, n),
       predicates |-> predicates \cup EvaluatedPredicates(predicates, n)]

\* "grounding.ensure(arity); ... grounding[arity-1]=0" for an eliminated symbol of
\* arity 0 writes outside the array
WritesOutOfBounds ==
  \/ \E f \in Functions : f > 1 /\ del_f(f) /\ functionArity(f) = 0
  \/ \E p \in Predicates : p > 1 /\ (del_p(p) \/ p \in partiallyDeletedPredicates)
                                 /\ predicateArity(p) = 0

\* the variables onModelFound asks the solver about
ReadVars(n) ==
  UNION {{SATVar(f, WithImage(args, d), TRUE, n) :
            args \in IF functionArity(f) = 0 THEN {EmptyGrounding}
                     ELSE ModelTuples(functionArity(f), n),
            d \in 1..n}
         : f \in {g \in Functions : ~del_f(g)}}
  \cup
  UNION {{SATVar(p, args, FALSE, n) :
            args \in IF predicateArity(p) = 0 THEN {EmptyGrounding}
                     ELSE ModelTuples(predicateArity(p), n)}
         : p \in {q \in Predicates : RecordedPredicate(q)}}

\* the assignments of the solver as far as the buffer or onModelFound can tell
\* them apart
Assignments(n) ==
  {A \in SUBSET (UsedVars \cup ReadVars(n)) : \A c \in Emitted : Satisfies(A, c)}

\* Return with the assignment of the solver: on SATISFIABLE onModelFound reads
\* it, unless the proof option is off; a write outside an array may end the run
ReturnModel ==
  /\ pc = "verdict"
  /\ Verdict(satResult) # "NONE"
  /\ IF /\ satResult = "SATISFIABLE"
        /\ Cardinality(UsedVars \cup ReadVars(modelSize)) <= MaxSatVars
        /\ Assignments(modelSize) # {}
     THEN \E A \in Assignments(modelSize), proof \in {"OFF", "ON"},
             crash \in IF WritesOutOfBounds THEN BOOLEAN ELSE {FALSE} :
            /\ model' = IF proof = "OFF" \/ crash THEN model
                        ELSE onModelFound(A, modelSize)
            /\ result' = IF proof = "ON" /\ crash THEN "CRASH" ELSE "SATISFIABLE"
     ELSE /\ model' = model
          /\ result' = Verdict(satResult)
  /\ trace' = IF satResult = "SATISFIABLE"
              THEN Append(trace, Ev("onModelFound", modelSize)) ELSE trace
  /\ pc' = "done"
  /\ UNCHANGED <<lgl, loop, prob, opt, groundClauses, clauses, clauseBounds, maxModelSize,
                 constantCount, f_offsets, p_offsets, solver, sortedGroundedTerms,
                 clausesToBeAdded, modelSize, satResult, timeLimitReached>>

NextSizeEnc == modelSize < MaxEncSize /\ NextSize

\* the problems whose clauses all have a variable under a function or predicate
EncProblems == {q \in Problems : \A i \in 1..Len(q.input) :
                  \E j \in 1..Len(q.input[i]) : ~isTwoVarEquality(q.input[i][j])}

InitEnc ==
  /\ prob \in EncProblems
  /\ opt \in {o \in Options :
                /\ o.complete
                /\ o.symbolOrder = "OCCURENCE"
                /\ o.startModelSize \in 1..MaxEncSize
                /\ o.useConstantsAsStart =>
                     \E f \in DOMAIN prob.functionArity :
                       prob.functionArity[f] = 0 /\ f \notin prob.deletedFunctions}
  /\ Constructed

NextEnc ==
  \/ init
  \/ Begin
  \/ EncodeClauses
  \/ SolveClauses
  \/ ReturnModel
  \/ NextSizeEnc

SpecEnc == InitEnc /\ [][NextEnc]_vars

(***************************************************************************)
(* addNewInstances(modelSize) one grounding at a time: the counter loop at *)
(* instanceLabel and the translation of the literals of the instance.      *)
(***************************************************************************)
\* "mins[i] = min(bounds[i],size)" for clause number ci
InstanceMins(ci, size) ==
  [i \in 0..(varCnt(clauses[ci]) - 1) |-> Min(clauseBounds[ci][i], size)]

\* "for(i...) grounding[i]=1; grounding[fvars-1]=0"
FirstGrounding(fvars) == [i \in 0..(fvars - 1) |-> IF i = fvars - 1 THEN 0 ELSE 1]

\* one run of "for(unsigned i=fvars-1;i+1!=0;i--)" from position i: a position at
\* mins[i] goes back to 1, the first one that is not is incremented
RECURSIVE Advance(_, _, _)
Advance(mins, g, i) ==
  IF i < 0 THEN [grounding |-> g, instance |-> FALSE]
  ELSE IF g[i] = mins[i] THEN Advance(mins, [g EXCEPT ![i] = 1], i - 1)
  ELSE [grounding |-> [g EXCEPT ![i] = Wrap(g[i] + 1)], instance |-> TRUE]

\* faulty variant: a two-variable equality never skips the instance
RECURSIVE TranslateWithoutSkip(_, _, _, _, _)
TranslateWithoutSkip(c, g, i, satClauseLits, size) ==
  IF i > Len(c) THEN [skip |-> FALSE, lits |-> satClauseLits]
  ELSE LET lit == c[i]
       IN  IF isTwoVarEquality(lit)
           THEN TranslateWithoutSkip(c, g, i + 1, satClauseLits, size)
           ELSE TranslateWithoutSkip(c, g, i + 1,
                  Append(satClauseLits,
                         getSATLiteral(lit.f, use(lit, g), lit.pos, isEquality(lit), size)),
                  size)

\* "Ground and translate each literal into a SATLiteral", from literal i on
RECURSIVE Translate(_, _, _, _, _)
Translate(c, g, i, satClauseLits, size) ==
  IF i > Len(c) THEN [skip |-> FALSE, lits |-> satClauseLits]
  ELSE LET lit == c[i]
           equal == g[lit.args[1]] = g[lit.args[2]]
       IN  IF isTwoVarEquality(lit)
           THEN IF (lit.pos /\ equal) \/ (~lit.pos /\ ~equal)
                THEN [skip |-> TRUE, lits |-> satClauseLits]
                ELSE Translate(c, g, i + 1, satClauseLits, size)
           ELSE Translate(c, g, i + 1,
                  Append(satClauseLits,
                         getSATLiteral(lit.f, use(lit, g), lit.pos, isEquality(lit), size)),
                  size)

\* SATClause::fromStack: the clause of a stack of literals
fromStack(lits) == {lits[k] : k \in 1..Len(lits)}

\* the call from runImpl, with the iterator before the first clause of _clauses
EnterInstances ==
  /\ pc = "loop"
  /\ ~timeLimitReached
  /\ loop.at = "idle"
  /\ loop' = [NotInLoop EXCEPT !.at = "next"]
  /\ UNCHANGED <<lgl, model, prob, opt, groundClauses, clauses, clauseBounds, maxModelSize,
                 constantCount, f_offsets, p_offsets, solver, sortedGroundedTerms,
                 clausesToBeAdded, pc, modelSize, satResult, result,
                 timeLimitReached, trace>>

\* "while(cit.hasNext())": the next clause with its first grounding, or the return
NextClause ==
  /\ loop.at = "next"
  /\ loop' = IF loop.clause = Len(clauses)
             THEN [loop EXCEPT !.at = "end"]
             ELSE [NotInLoop EXCEPT
                     !.at = "run", !.clause = loop.clause + 1,
                     !.grounding = FirstGrounding(varCnt(clauses[loop.clause + 1]))]
  /\ UNCHANGED <<lgl, model, prob, opt, groundClauses, clauses, clauseBounds, maxModelSize,
                 constantCount, f_offsets, p_offsets, solver, sortedGroundedTerms,
                 clausesToBeAdded, pc, modelSize, satResult, result,
                 timeLimitReached, trace>>

\* "Grounding represents a new instance": the next grounding of the clause, its
\* literals, and addSATClause unless the instance is skipped
NextGrounding ==
  /\ loop.at = "run"
  /\ loop.visits < MaxVisits
  /\ LET c == clauses[loop.clause]
         next == Advance(InstanceMins(loop.clause, modelSize), loop.grounding,
                         varCnt(c) - 1)
         t == Translate(c, next.grounding, 1, <<>>, modelSize)
     IN  /\ next.instance
         /\ loop' = [loop EXCEPT !.grounding = next.grounding,
                                 !.visits = loop.visits + 1,
                                 !.seen = loop.seen \cup {next.grounding},
                                 !.visited = TRUE,
                                 !.skipped = t.skip,
                                 !.built = t.lits,
                                 !.pushed = IF t.skip THEN {}
                                            ELSE addSATClause({fromStack(t.lits)})]
  /\ UNCHANGED <<lgl, model, prob, opt, groundClauses, clauses, clauseBounds, maxModelSize,
                 constantCount, f_offsets, p_offsets, solver, sortedGroundedTerms,
                 clausesToBeAdded, pc, modelSize, satResult, result,
                 timeLimitReached, trace>>

\* the for loop ends with every position back at 1: the clause is done
RunThrough ==
  /\ loop.at = "run"
  /\ LET c == clauses[loop.clause]
         next == Advance(InstanceMins(loop.clause, modelSize), loop.grounding,
                         varCnt(c) - 1)
     IN  /\ ~next.instance
         /\ loop' = [loop EXCEPT !.at = "next", !.grounding = next.grounding,
                                 !.visited = FALSE]
  /\ UNCHANGED <<lgl, model, prob, opt, groundClauses, clauses, clauseBounds, maxModelSize,
                 constantCount, f_offsets, p_offsets, solver, sortedGroundedTerms,
                 clausesToBeAdded, pc, modelSize, satResult, result,
                 timeLimitReached, trace>>

InitInst ==
  /\ prob \in Problems
  /\ opt \in {o \in Options :
                /\ o.complete
                /\ o.symbolOrder = "OCCURENCE"
                /\ o.startModelSize \in 1..MaxEncSize
                /\ o.widgetOrder = "FUNCTION_FIRST"
                /\ o.symmetryRatio.num = o.symmetryRatio.den}
  /\ Constructed

NextInst ==
  \/ init
  \/ Begin
  \/ EnterInstances
  \/ NextClause
  \/ NextGrounding
  \/ RunThrough

SpecInst == InitInst /\ [][NextInst]_vars

(***************************************************************************)
(* Properties of the search loop.                                          *)
(***************************************************************************)
IsTry(e) == e.ev = "try"
IsSolve(e) == e.ev = "solve"
IsReset(e) == e.ev = "reset"
IsEncode(e) == e.ev = "encode"
IsExtract(e) == e.ev = "onModelFound"

Tried == SelectSeq(trace, IsTry)
Solved == SelectSeq(trace, IsSolve)

\* the events recorded for size n
EventsFor(n) == {k \in 1..Len(trace) : trace[k].size = n}

\* C1: the rounds try the sizes s, s+1, s+2, ... without a gap or a repetition,
\* where s is the number of live constants under useConstantsAsStart and the
\* start size otherwise; a SATISFIABLE verdict is followed by model extraction
\* for that size and by nothing else, and the result is then SATISFIABLE.
C1_SizesInOrderUntilModel ==
  LET s == IF opt.useConstantsAsStart THEN Cardinality(LiveConstants)
           ELSE opt.startModelSize
  IN  /\ \A i \in 1..Len(Tried) : Tried[i].size = s + i - 1
      /\ \A k \in 1..Len(trace) :
           (IsSolve(trace[k]) /\ trace[k].verdict = "SATISFIABLE") =>
             /\ k >= Len(trace) - 1
             /\ \A j \in (k + 1)..Len(trace) :
                  IsExtract(trace[j]) /\ trace[j].size = trace[k].size
             /\ pc \in {"verdict", "done"}
             /\ pc = "done" => result = "SATISFIABLE" /\ Len(trace) = k + 1
      /\ result = "SATISFIABLE" =>
           /\ Len(Solved) = Len(Tried)
           /\ Solved[Len(Solved)].verdict = "SATISFIABLE"
           /\ Solved[Len(Solved)].size = Tried[Len(Tried)].size
           /\ \A i \in 1..(Len(Solved) - 1) : Solved[i].verdict # "SATISFIABLE"

\* a model was found in the third round of a search started at the constant count
C1_Witness ==
  /\ result = "SATISFIABLE"
  /\ opt.useConstantsAsStart
  /\ constantCount = 2
  /\ Len(Tried) = 3
  /\ modelSize = 4

\* no solve() gave up, and the last verdict is the satisfiability of the buffer
SolverDecided ==
  \A k \in 1..Len(trace) : IsSolve(trace[k]) => (trace[k].verdict # "UNKNOWN" /\ trace[k].ok)

\* C2 (where the solver decided every round): REFUTATION is returned only in
\* the round whose size equals maxModelSize, and the SAT verdict of that round
\* was UNSATISFIABLE.
C2_RefutationExactlyAtMax ==
  (result = "REFUTATION" /\ SolverDecided) =>
    modelSize = maxModelSize /\ satResult = "UNSATISFIABLE"

\* C3 (where the solver decided every round): when REFUTATION is returned,
\* every size 1..maxModelSize has been encoded and solved with verdict
\* UNSATISFIABLE.
C3_RefutationCoversAllSizes ==
  (result = "REFUTATION" /\ SolverDecided) =>
    \A m \in 1..maxModelSize :
      \E k \in 1..Len(trace) :
        IsSolve(trace[k]) /\ trace[k].size = m /\ trace[k].verdict = "UNSATISFIABLE"

\* C4: an UNKNOWN verdict ends the search with result UNKNOWN: nothing is done
\* after it (no next size) and the result is neither REFUTATION nor anything else.
C4_UnknownVerdictIsReturned ==
  \A k \in 1..Len(trace) :
    (IsSolve(trace[k]) /\ trace[k].verdict = "UNKNOWN") =>
      /\ k = Len(trace)
      /\ pc = "done" => result = "UNKNOWN"

\* C5: when reset(n) reports an overflow, in the first round or later, runImpl
\* returns UNKNOWN and neither the encoder nor solve() runs for n.
C5_OverflowIsReturned ==
  \A k \in 1..Len(trace) :
    (IsReset(trace[k]) /\ ~trace[k].ok) =>
      /\ \A j \in (k + 1)..Len(trace) : ~IsEncode(trace[j]) /\ ~IsSolve(trace[j])
      /\ pc = "done" => result = "UNKNOWN"

\* C6 as stated: when TIME_LIMIT is returned for size n, nothing but the check
\* was done for n: no reset(n), no encoding, no solve().
C6_NothingBeforeTimeCheck ==
  result = "TIME_LIMIT" => \A k \in EventsFor(modelSize) : IsTry(trace[k])

\* C6 as amended: the wall-clock check precedes the encoder and solve() of the
\* round, so a reached time limit returns TIME_LIMIT with no encoding and no
\* solve() for n; reset(n) has run before the check of every round, and an
\* overflow it finds after the first round returns UNKNOWN whatever the clock.
C6_TimeCheckBeforeEncoder ==
  /\ pc = "loop" => \E k \in EventsFor(modelSize) : IsReset(trace[k])
  /\ result = "TIME_LIMIT" =>
       /\ timeLimitReached
       /\ IsTry(trace[Len(trace)]) /\ trace[Len(trace)].size = modelSize
       /\ \A k \in EventsFor(modelSize) : IsTry(trace[k]) \/ IsReset(trace[k])
       /\ \E k \in EventsFor(modelSize) : IsReset(trace[k])
  /\ \A k \in 1..Len(trace) :
       IsEncode(trace[k]) => k > 1 /\ IsTry(trace[k - 1]) /\ trace[k - 1].ok
  /\ \A k \in 1..Len(trace) : (IsTry(trace[k]) /\ ~trace[k].ok) => result = "TIME_LIMIT"
  /\ \A k \in 2..Len(trace) :
       (IsReset(trace[k]) /\ ~trace[k].ok) => k = Len(trace) /\ result = "UNKNOWN"

\* the time limit was reached at the head of the third round
C6_Witness ==
  /\ result = "TIME_LIMIT"
  /\ Len(Tried) = 3
  /\ \E k \in EventsFor(modelSize) : IsReset(trace[k]) /\ trace[k].ok

(***************************************************************************)
(* Properties of the layout.                                               *)
(***************************************************************************)
LiveFunctions == {f \in Functions : ~del_f(f)}
LivePredicates == {p \in Predicates : p >= 1 /\ ~del_p(p)}

\* the argument tuples [1..n]^k as C arrays
Tuples(n, k) == [0..(k - 1) -> 1..n]

\* the facts f(d) = e and p(d) of the live symbols at size n
Facts(n) ==
  {[isFunction |-> TRUE, f |-> f, tuple |-> t] :
     f \in LiveFunctions, t \in UNION {Tuples(n, functionArity(g) + 1) : g \in LiveFunctions}}
  \cup
  {[isFunction |-> FALSE, f |-> p, tuple |-> t] :
     p \in LivePredicates, t \in UNION {Tuples(n, predicateArity(q)) : q \in LivePredicates}}

WellFormed(x) ==
  ArrLen(x.tuple) = IF x.isFunction THEN functionArity(x.f) + 1 ELSE predicateArity(x.f)

FactVar(x, n) == SATVar(x.f, x.tuple, x.isFunction, n)

\* reset(modelSize) has returned true and the round has not begun
AfterReset ==
  /\ pc = "loop"
  /\ ~solver.null
  /\ solver.size = modelSize

\* C9: after reset(n), n >= 1, different facts of live symbols have different
\* variables, all between 1 and the variable count declared to the solver.
C9_LayoutIsInjective ==
  (AfterReset /\ modelSize \in 1..MaxSize) =>
    LET facts == {x \in Facts(modelSize) : WellFormed(x)}
    IN  /\ \A x \in facts : FactVar(x, modelSize) \in 1..solver.varCnt
        /\ \A x, y \in facts : x # y => FactVar(x, modelSize) # FactVar(y, modelSize)

RECURSIVE Sum(_, _)
Sum(S, F) ==
  IF S = {} THEN 0
  ELSE LET x == CHOOSE y \in S : TRUE IN F[x] + Sum(S \ {x}, F)

\* the last reset event
LastReset == trace[Len(trace)]

\* C10 as stated: reset(n) counts 1 + the sum of n^(arity+1) over the live
\* functions + the sum of n^arity over the live predicates.
C10_TotalVarsAsStated ==
  AfterReset =>
    LET fb == [f \in LiveFunctions |-> PowCut(modelSize, functionArity(f) + 1)]
        pb == [p \in LivePredicates |-> PowCut(modelSize, predicateArity(p))]
    IN  LastReset.offsets = 1 + Sum(LiveFunctions, fb) + Sum(LivePredicates, pb)

\* no block of the layout for size n is too large for an unsigned
BlocksRepresentable(n) ==
  /\ \A f \in LiveFunctions : PowCut(n, functionArity(f) + 2) <= UINT_MAX
  /\ \A p \in LivePredicates : PowCut(n, predicateArity(p) + 1) <= UINT_MAX

\* C10 as amended: a live function has a block of n^(arity+2) variables and a
\* live predicate one of n^(arity+1): where these are unsigned values and reset
\* returns true, it counts 1 + their sum, the blocks follow each other in the
\* order functions, predicates, and the solver is told that count plus one.
C10_TotalVarsOfTheCode ==
  (AfterReset /\ BlocksRepresentable(modelSize)) =>
    LET fb == [f \in LiveFunctions |-> PowCut(modelSize, functionArity(f) + 2)]
        pb == [p \in LivePredicates |-> PowCut(modelSize, predicateArity(p) + 1)]
        allF == Sum(LiveFunctions, fb)
    IN  /\ LastReset.offsets = 1 + allF + Sum(LivePredicates, pb)
        /\ \A f \in LiveFunctions :
             f_offsets[f] = 1 + Sum({g \in LiveFunctions : g < f}, fb)
        /\ \A p \in LivePredicates :
             p_offsets[p] = 1 + allF + Sum({q \in LivePredicates : q < p}, pb)
        /\ solver.varCnt = Wrap(LastReset.offsets + 1)

\* the layout of a binary function and a constant at size 3
C10_Witness ==
  /\ AfterReset
  /\ modelSize = 3
  /\ prob.name = "Binary"
  /\ LastReset.offsets = 1 + 81 + 9

(***************************************************************************)
(* Properties of the encoder.                                              *)
(***************************************************************************)
\* all five groups for modelSize are in the buffer
Encoded ==
  /\ pc = "solve"
  /\ ~solver.null
  /\ solver.size = modelSize

\* the argument tuples of f at size n within f's argument bounds
InBoundTuples(f, n) ==
  {d \in Tuples(n, functionArity(f)) :
     \A j \in DOMAIN d : d[j] <= functionBounds(f)[j + 1]}

\* the images e in 1..n of f(d) under assignment A
Images(A, f, d, n) ==
  {e \in 1..n :
     SATVar(f, [k \in 0..functionArity(f) |-> IF k = functionArity(f) THEN e ELSE d[k]],
            TRUE, n) \in A}

\* C7: every assignment that satisfies all clauses emitted for n makes
\* var(f,(d,e)) true for exactly one e in 1..n, for every live function f and
\* every argument tuple d within f's argument bounds.
C7_ExactlyOneImage ==
  (Encoded /\ solver.varCnt <= MaxSatVars) =>
    \A A \in Models : \A f \in LiveFunctions : \A d \in InBoundTuples(f, modelSize) :
      Cardinality(Images(A, f, d, modelSize)) = 1

\* the fact a literal was made for is within the bounds of its symbol
WithinBounds(l) ==
  IF l.isFunction
  THEN /\ \A j \in 0..(functionArity(l.f) - 1) : l.grounding[j] <= functionBounds(l.f)[j + 1]
       /\ l.grounding[functionArity(l.f)] <= functionBounds(l.f)[0]
  ELSE \A j \in DOMAIN l.grounding : l.grounding[j] <= predicateBounds(l.f)[j]

\* the clauses of the groups C8 names
BoundedGroups == {"INSTANCES", "FUNC_DEFS", "SYM_DEFS", "TOTAL_DEFS"}

\* C8: no literal of a clause instance, functionality, totality, ordered
\* totality or canonicity clause is for a tuple with an argument above its
\* argument bound or an image above fbounds[f][0].
C8_LiteralsWithinBounds ==
  Encoded =>
    \A i \in 1..Len(clausesToBeAdded) :
      clausesToBeAdded[i].group \in BoundedGroups =>
        \A c \in clausesToBeAdded[i].clauses : \A l \in c : WithinBounds(l)


(***************************************************************************)
(* The instances of a clause.                                              *)
(***************************************************************************)
\* the groundings of clause number ci within the bounds: every variable between 1
\* and the smaller of its clause bound and the size
GroundingsInRange(ci, size) ==
  {g \in [0..(varCnt(clauses[ci]) - 1) -> 1..size] :
     \A v \in DOMAIN g : g[v] <= Min(clauseBounds[ci][v], size)}

InLoop == loop.at \in {"run", "next"} /\ loop.clause > 0

\* C11: addNewInstances visits no grounding of a clause twice and none with a
\* variable outside 1..min(cbounds[C][v], n), and when the counter has run through
\* it has visited every grounding in that range
C11_VisitsExactlyTheRange ==
  InLoop =>
    /\ loop.seen \subseteq GroundingsInRange(loop.clause, modelSize)
    /\ loop.visits = Cardinality(loop.seen)
    /\ loop.at = "next" => loop.seen = GroundingsInRange(loop.clause, modelSize)

\* a clause whose variables all have a clause bound is enumerated as stated
AllBounded(ci) == \A v \in DOMAIN clauseBounds[ci] : clauseBounds[ci][v] > 0

C11_BoundedClausesAsStated ==
  (InLoop /\ AllBounded(loop.clause) /\ modelSize > 0) =>
    /\ loop.seen \subseteq GroundingsInRange(loop.clause, modelSize)
    /\ loop.visits = Cardinality(loop.seen)
    /\ loop.at = "next" => loop.seen = GroundingsInRange(loop.clause, modelSize)

C11_BoundedWitness ==
  /\ loop.at = "next" /\ loop.clause > 0
  /\ AllBounded(loop.clause)
  /\ loop.visits > 1

\* a two-variable equality or disequality that is true under the grounding g
TrueUnder(lit, g) ==
  /\ isTwoVarEquality(lit)
  /\ lit.pos <=> (g[lit.args[1]] = g[lit.args[2]])

\* the definition equalities and predicate literals of a clause, in its order
OtherLiterals(c) == SelectSeq(c, LAMBDA lit : ~isTwoVarEquality(lit))

\* the SAT literal of a definition equality or predicate literal under g
SATLiteralOf(lit, g, size) ==
  LET args == [j \in 0..(Len(lit.args) - 1) |-> g[lit.args[j + 1]]]
  IN  [var |-> SATVar(lit.f, args, isEquality(lit), size), pol |-> lit.pos]

Visited == loop.at = "run" /\ loop.visited

SomeTrueEquality ==
  \E k \in 1..Len(clauses[loop.clause]) :
    TrueUnder(clauses[loop.clause][k], loop.grounding)

VarPol(l) == [var |-> l.var, pol |-> l.pol]

\* the clause of one literal per definition equality or predicate literal
OneLiteralEach(cl) ==
  LET others == OtherLiterals(clauses[loop.clause])
  IN  /\ Cardinality(cl) = Len(others)
      /\ {VarPol(l) : l \in cl}
           = {SATLiteralOf(others[k], loop.grounding, modelSize) : k \in 1..Len(others)}

\* C12 as stated: for a visited grounding a SAT clause is emitted if and only if no
\* two-variable (dis)equality of the clause is true under it, and the emitted clause
\* has exactly one literal per definition equality or predicate literal, with that
\* literal's polarity
C12_EmittedIffNoTrueEquality ==
  Visited =>
    /\ (loop.pushed # {}) <=> ~SomeTrueEquality
    /\ \A cl \in loop.pushed : OneLiteralEach(cl)

\* C12: for a visited grounding a SAT clause is built and handed to addSATClause if
\* and only if no two-variable (dis)equality of the clause is true under it; the
\* clause built has, in the order of the clause, exactly one literal per definition
\* equality or predicate literal, with that literal's polarity; what reaches the
\* solver is that clause with each literal once, and nothing if it holds a
\* variable in both polarities
C12_BuiltIffNoTrueEquality ==
  Visited =>
    LET others == OtherLiterals(clauses[loop.clause])
    IN  /\ loop.skipped <=> SomeTrueEquality
        /\ loop.skipped => loop.pushed = {}
        /\ ~loop.skipped =>
             /\ Len(loop.built) = Len(others)
             /\ \A k \in 1..Len(others) :
                  VarPol(loop.built[k]) = SATLiteralOf(others[k], loop.grounding, modelSize)
             /\ loop.pushed = IF Tautology(fromStack(loop.built)) THEN {}
                              ELSE {fromStack(loop.built)}
             /\ loop.pushed = addSATClause({Instance(clauses[loop.clause],
                                                      loop.grounding, modelSize)})

\* an instance with a false two-variable equality that is handed on without it
C12_Witness ==
  /\ Visited
  /\ ~loop.skipped
  /\ \E k \in 1..Len(clauses[loop.clause]) : isTwoVarEquality(clauses[loop.clause][k])
  /\ loop.built # <<>>
  /\ loop.pushed # {}

(***************************************************************************)
(* Canonicity.                                                             *)
(***************************************************************************)
\* the grounded term a literal f(g,...,g) = image is about
TermOf(l) ==
  GroundedTerm(l.f, IF functionArity(l.f) = 0 THEN 0 ELSE l.grounding[0])

ImageOf(l) == l.grounding[functionArity(l.f)]

\* the canonicity clauses in the buffer: the clauses of the symmetry group with a
\* negative literal (an ordering clause has none)
CanonicityClauses ==
  UNION {{cl \in clausesToBeAdded[i].clauses : \E l \in cl : ~l.pol}
         : i \in {k \in 1..Len(clausesToBeAdded) :
                    /\ clausesToBeAdded[k].group = "SYM_DEFS"
                    /\ clausesToBeAdded[k].size = modelSize}}

\* the values 1..n given to the terms G[1..k], one per term, each value above 1
\* only after the value below it
RECURSIVE InOrder(_, _, _)
InOrder(G, n, k) ==
  IF k = 0 THEN {<<>>}
  ELSE UNION {{Append(val, v) :
                 v \in {u \in 1..n :
                          /\ u > 1 => \E j \in 1..(k - 1) : val[j] = u - 1
                          /\ \A j \in 1..(k - 1) : G[j] = G[k] => val[j] = u}}
              : val \in InOrder(G, n, k - 1)}

\* the place of a literal's term in G
IndexIn(G, l) == CHOOSE k \in 1..Len(G) : G[k] = TermOf(l)

\* the literal about the term at place k, with image e, is true under val
TrueIn(val, k, e, pol) == pol <=> (val[k] = e)

SortOfClause(cl, s) ==
  \A l \in cl : \E k \in 1..Len(sortedGroundedTerms[s]) : sortedGroundedTerms[s][k] = TermOf(l)

\* the literals of a clause as (place of the term in G, image, polarity)
Placed(cl, G) == {<<IndexIn(G, l), ImageOf(l), l.pol>> : l \in cl}

\* C13: every assignment of the values 1..n to the grounded terms of a sort that
\* introduces the values in the order of the list satisfies every canonicity
\* clause emitted for that sort at size n
C13_CanonicityAdmitsOrderedModels ==
  Encoded =>
    \A s \in 0..(prob.sorts - 1) :
      LET G == sortedGroundedTerms[s]
          cls == {Placed(cl, G) : cl \in {c \in CanonicityClauses : SortOfClause(c, s)}}
      IN  /\ \A cl \in CanonicityClauses : \E t \in 0..(prob.sorts - 1) : SortOfClause(cl, t)
          /\ (cls # {} /\ Len(G) <= MaxTerms) =>
               \A val \in InOrder(G, modelSize, Len(G)) :
                 \A cl \in cls : \E l \in cl : TrueIn(val, l[1], l[2], l[3])

\* a canonicity clause of three literals whose term takes the value n in an
\* assignment in order
C13_Witness ==
  /\ Encoded
  /\ \E cl \in CanonicityClauses :
       /\ Cardinality(cl) >= 3
       /\ \E s \in 0..(prob.sorts - 1) :
            /\ SortOfClause(cl, s)
            /\ Len(sortedGroundedTerms[s]) <= MaxTerms
            /\ \E val \in InOrder(sortedGroundedTerms[s], modelSize,
                                  Len(sortedGroundedTerms[s])) :
                 \E l \in cl :
                   /\ ~l.pol
                   /\ ~TrueIn(val, IndexIn(sortedGroundedTerms[s], l), ImageOf(l), l.pol)

(***************************************************************************)
(* The extracted interpretation.                                           *)
(***************************************************************************)
\* the literal l holds in the interpretation under the grounding g of the variables
HoldsIn(l, g) ==
  IF isTwoVarEquality(l) THEN l.pos <=> (g[l.args[1]] = g[l.args[2]])
  ELSE IF isEquality(l)
  THEN LET u == use(l, g)
           k == functionArity(l.f)
       IN  l.pos <=> (Fact(l.f, [j \in 0..(k - 1) |-> u[j]], u[k]) \in model.functions)
  ELSE l.pos <=> (Fact(l.f, use(l, g), TRUE) \in model.predicates)

\* every clause holds for every assignment of the values 1..n to its variables
ClausesHold(n) ==
  /\ \A ci \in 1..Len(clauses) :
       \A g \in Tuples(n, varCnt(clauses[ci])) :
         \E k \in 1..Len(clauses[ci]) : HoldsIn(clauses[ci][k], g)
  /\ \A ci \in 1..Len(groundClauses) :
       \E k \in 1..Len(groundClauses[ci]) : HoldsIn(groundClauses[ci][k], EmptyGrounding)

\* every live function has an image for every tuple within its argument bounds
ImagesRecorded(n) ==
  \A f \in LiveFunctions : \A d \in InBoundTuples(f, n) :
    \E x \in model.functions : x.f = f /\ x.args = d

\* C14: the interpretation onModelFound extracts from a satisfying assignment at
\* size n satisfies every clause over the domain 1..n, and records an image of
\* every live function for every argument tuple an instance can reach
C14_ExtractedModelSatisfiesClauses ==
  model.extracted => ClausesHold(modelSize) /\ ImagesRecorded(modelSize)

\* no sort of the problem has a bound below the model size
NoBoundBelow(n) ==
  /\ \A f \in LiveFunctions : \A j \in DOMAIN functionBounds(f) : functionBounds(f)[j] >= n
  /\ \A p \in LivePredicates : \A j \in DOMAIN predicateBounds(p) : predicateBounds(p)[j] >= n

\* without a bound below the model size the interpretation is a model
C14_ModelWithoutTightBounds ==
  (model.extracted /\ NoBoundBelow(modelSize)) =>
    /\ ClausesHold(modelSize)
    /\ ImagesRecorded(modelSize)
    /\ model.assertion = "none"

C14_ModelWitness ==
  /\ model.extracted
  /\ NoBoundBelow(modelSize)
  /\ modelSize >= 2
  /\ clauses # <<>>

\* C15: after onModelFound every eliminated function and every eliminated or
\* partially eliminated predicate, whatever its number and its arity, has a value
\* recorded for every argument tuple in [1..n]^arity
C15_EliminatedSymbolsEvaluated ==
  model.extracted =>
    /\ \A f \in {g \in Functions : del_f(g)} :
         \A d \in Tuples(modelSize, functionArity(f)) :
           \E x \in model.functions : x.f = f /\ x.args = d
    /\ \A p \in {q \in Predicates : q >= 1 /\ (del_p(q) \/ q \in partiallyDeletedPredicates)} :
         \A d \in Tuples(modelSize, predicateArity(p)) :
           \E x \in model.predicates : x.f = p /\ x.args = d

\* the eliminated symbols the loops reach are evaluated: those with a number
\* above 1 and an arity above 0
C15_EvaluatedAboveOne ==
  model.extracted =>
    /\ \A f \in {g \in Functions : del_f(g) /\ g > 1 /\ functionArity(g) > 0} :
         \A d \in Tuples(modelSize, functionArity(f)) :
           \E x \in model.functions : x.f = f /\ x.args = d
    /\ \A p \in {q \in Predicates : del_p(q) /\ q > 1 /\ predicateArity(q) > 0} :
         \A d \in Tuples(modelSize, predicateArity(p)) :
           \E x \in model.predicates : x.f = p /\ x.args = d

(***************************************************************************)
(* Ground clauses.                                                         *)
(***************************************************************************)
\* the clauses of the ground group of the round
GroundGroup ==
  UNION {clausesToBeAdded[i].clauses :
           i \in {k \in 1..Len(clausesToBeAdded) :
                    /\ clausesToBeAdded[k].group = "GROUND"
                    /\ clausesToBeAdded[k].size = modelSize}}

\* the propositional variable of the i-th literal of a ground clause, with its polarity
PropositionalLiteral(c, i) == [var |-> p_offsets[c[i].f], pol |-> c[i].pos]

VarsOf(cl) == {VarPol(l) : l \in cl}

Expected(c) == {PropositionalLiteral(c, i) : i \in 1..Len(c)}

\* C16 as stated: every ground clause is in every round's buffer as one SAT clause
\* with one literal per literal of the clause, the variable of its predicate with
\* its polarity; none is dropped, none is altered
C16_GroundClausesUnaltered ==
  Encoded =>
    \A ci \in 1..Len(groundClauses) :
      \E cl \in GroundGroup :
        /\ Cardinality(cl) = Len(groundClauses[ci])
        /\ VarsOf(cl) = Expected(groundClauses[ci])

Complementary(lits) == \E l1, l2 \in lits : l1.var = l2.var /\ l1.pol # l2.pol

\* C16: in every round every ground clause is translated literal by literal into
\* the variables of its predicates with their polarities; the clause reaches the
\* buffer with each of these literals once, unless it holds a variable in both
\* polarities, and then it does not reach it; nothing else is in the ground group
C16_GroundClausesUpToDuplicates ==
  Encoded =>
    /\ \A ci \in 1..Len(groundClauses) :
         LET c == groundClauses[ci]
         IN  IF Complementary(Expected(c))
             THEN \A cl \in GroundGroup : VarsOf(cl) # Expected(c)
             ELSE \E cl \in GroundGroup :
                    /\ VarsOf(cl) = Expected(c)
                    /\ Cardinality(cl) = Cardinality(Expected(c))
    /\ \A cl \in GroundGroup :
         \E ci \in 1..Len(groundClauses) : VarsOf(cl) = Expected(groundClauses[ci])

\* a round after the first with a ground clause of a negative literal in the buffer
C16_Witness ==
  /\ Encoded
  /\ modelSize >= 2
  /\ \E cl \in GroundGroup : \E l \in cl : ~l.pol
  /\ \E ci \in 1..Len(groundClauses) : Len(groundClauses[ci]) >= 2

(***************************************************************************)
(* The upper bound of the model size.                                      *)
(***************************************************************************)
\* a clause of nothing but positive equalities between two different variables
OnlyPositiveEqualities(c) ==
  \A i \in 1..Len(c) : isTwoVarEquality(c[i]) /\ c[i].pos /\ c[i].args[1] # c[i].args[2]

\* the least number of variables of such a clause of the input, UINT_MAX without one
LeastDistinctness ==
  LET counts == {varCnt(prob.input[i]) :
                   i \in {k \in 1..Len(prob.input) : OnlyPositiveEqualities(prob.input[k])}}
  IN  IF counts = {} THEN UINT_MAX
      ELSE CHOOSE m \in counts : \A c \in counts : m <= c

\* C17 as stated: maxModelSize starts at UINT_MAX, no step increases it, and after
\* init it is the least number of variables of a clause of only positive
\* two-variable equalities between distinct variables (UINT_MAX if there is none)
C17_MaxModelSizeAfterInit ==
  /\ [](pc = "constructed" => maxModelSize = UINT_MAX)
  /\ [][maxModelSize' <= maxModelSize]_vars
  /\ [](pc = "initialised" => maxModelSize = LeastDistinctness)

\* C17: maxModelSize starts at UINT_MAX, no step increases it, and after init has
\* scanned the clauses it is the least number of variables of a clause of only
\* positive two-variable equalities between distinct variables (UINT_MAX if there
\* is none); init scans nothing when the strategy is not complete
C17_MaxModelSizeAfterScan ==
  /\ [](pc = "constructed" => maxModelSize = UINT_MAX)
  /\ [][maxModelSize' <= maxModelSize]_vars
  /\ [](pc = "initialised" =>
          maxModelSize = IF opt.complete THEN LeastDistinctness ELSE UINT_MAX)

\* init has lowered the bound to the smaller of two such clauses
C17_Witness ==
  /\ pc = "initialised"
  /\ opt.complete
  /\ maxModelSize < UINT_MAX
  /\ \E i \in 1..Len(prob.input) :
       OnlyPositiveEqualities(prob.input[i]) /\ varCnt(prob.input[i]) > maxModelSize

\* runImpl is past the lowering of the bound
Lowered == opt.complete /\ pc \notin {"constructed", "initialised"}

\* "EPR or no function symbol of arity > 0"
EprLike == prob.epr \/ \A f \in Functions : functionArity(f) = 0

\* C18 as stated: for such a problem runImpl lowers maxModelSize to the number of
\* all constants of the problem when that number is smaller
C18_LoweredToAllConstants ==
  (Lowered /\ EprLike) => maxModelSize = Min(LeastDistinctness, Cardinality(LiveConstants))

\* the largest number of constants of one sort, and 1 if no sort has a constant
LargestSort ==
  LET sizes == {Len(prob.sortedConstants[s]) : s \in 0..(prob.sorts - 1)}
  IN  IF \A n \in sizes : n = 0 THEN 1
      ELSE CHOOSE m \in sizes : \A n \in sizes : n <= m

\* C18: for such a problem runImpl lowers maxModelSize to the largest number of
\* constants any one sort has, and to 1 if no sort has a constant, when that number
\* is smaller; for any other problem it leaves maxModelSize as init set it
C18_LoweredToLargestSort ==
  Lowered =>
    maxModelSize = IF EprLike THEN Min(LeastDistinctness, LargestSort)
                   ELSE LeastDistinctness

\* two sorts with constants: the bound is below the number of all constants
C18_Witness ==
  /\ Lowered
  /\ EprLike
  /\ prob.sorts >= 2
  /\ maxModelSize = 2
  /\ Cardinality(LiveConstants) = 3

(***************************************************************************)
(* Scenarios.                                                              *)
(***************************************************************************)
\* the round for size n was solved with verdict v
SolvedWith(n, v) ==
  \E i \in 1..Len(trace) : IsSolve(trace[i]) /\ trace[i].size = n /\ trace[i].verdict = v

SolvedSize(n) == \E i \in 1..Len(trace) : IsSolve(trace[i]) /\ trace[i].size = n

\* a = b, b = c, a != c searched from size 1
ScenarioE2 ==
  /\ prob.name = "ThreeConstants"
  /\ opt.complete /\ ~opt.useConstantsAsStart /\ opt.startModelSize = 1

\* C19 as stated: in scenario E2 maxModelSize is 1, the round for n = 1 is
\* unsatisfiable and runImpl returns REFUTATION in that round
C19_RefutationAtSizeOne ==
  (ScenarioE2 /\ Lowered) =>
    /\ maxModelSize = 1
    /\ (SolvedSize(1) /\ SolverDecided) => SolvedWith(1, "UNSATISFIABLE")
    /\ (result = "REFUTATION") => modelSize = 1
    /\ (pc = "verdict" /\ modelSize = 1 /\ satResult = "UNSATISFIABLE") =>
         Verdict(satResult) = "REFUTATION"

\* C19: in scenario E2 maxModelSize is 3, the number of constants of the one sort;
\* the rounds for n = 1, 2 and 3 are unsatisfiable, the search goes on after the
\* first two, and runImpl returns REFUTATION in the round for n = 3
C19_RefutationAtSizeThree ==
  (ScenarioE2 /\ Lowered) =>
    /\ maxModelSize = 3
    /\ SolverDecided =>
         \A n \in 1..3 : SolvedSize(n) => SolvedWith(n, "UNSATISFIABLE")
    /\ (result = "REFUTATION") => (modelSize = 3 /\ \A n \in 1..3 : SolvedSize(n))
    /\ (pc = "verdict" /\ satResult = "UNSATISFIABLE") =>
         (Verdict(satResult) = "REFUTATION") <=> (modelSize = 3)
    /\ (pc = "done" /\ SolverDecided) => result = "REFUTATION"

C19_Witness ==
  /\ ScenarioE2
  /\ pc = "done"
  /\ result = "REFUTATION"
  /\ SolverDecided

\* f(f(x)) = x, f(a) != a searched from size 1
ScenarioE5 ==
  /\ prob.name = "Cycle"
  /\ opt.complete /\ ~opt.useConstantsAsStart /\ opt.startModelSize = 1

\* the ordering clause of the round is in the buffer
OrderingEmitted ==
  \E i \in 1..Len(clausesToBeAdded) :
    /\ clausesToBeAdded[i].group = "SYM_DEFS"
    /\ clausesToBeAdded[i].size = modelSize
    /\ \E cl \in clausesToBeAdded[i].clauses : \A l \in cl : l.pol

\* C20: in scenario E5 the clauses emitted for n = 1 are unsatisfiable and those
\* emitted for n = 2, the ordering clause and the canonicity clauses among them,
\* are satisfiable, so that runImpl returns SATISFIABLE with model size 2; the
\* interpretation extracted then is a model of the two clauses
C20_CycleHasModelOfSizeTwo ==
  ScenarioE5 =>
    /\ (Encoded /\ modelSize = 1) => (Decidable /\ ~Satisfiable)
    /\ (Encoded /\ modelSize = 2) => (Decidable /\ Satisfiable /\ OrderingEmitted)
    /\ SolverDecided =>
         /\ SolvedSize(1) => SolvedWith(1, "UNSATISFIABLE")
         /\ SolvedSize(2) => SolvedWith(2, "SATISFIABLE")
         /\ modelSize <= 2
         /\ pc = "done" => (result = "SATISFIABLE" /\ modelSize = 2)
    /\ model.extracted => (ClausesHold(modelSize) /\ model.assertion = "none")

\* SATISFIABLE is returned at size 2 with canonicity clauses in the buffer
C20_Witness ==
  /\ ScenarioE5
  /\ pc = "done"
  /\ result = "SATISFIABLE"
  /\ modelSize = 2
  /\ SolverDecided
  /\ SolvedWith(1, "UNSATISFIABLE")
  /\ OrderingEmitted
  /\ CanonicityClauses # {}
  /\ model.extracted

(***************************************************************************)
(* The canonicity window.                                                  *)
(***************************************************************************)
\* the least integer not below num * x / den
CeilOfProduct(num, den, x) == ((num * x) + (den - 1)) \div den

\* w = min(ceil(ratio * maxSize), |G|)
StatedWindow(length) ==
  Min(CeilOfProduct(opt.symmetryRatio.num, opt.symmetryRatio.den, maxModelSize), length)

\* NOT[G[i] = n] OR the disjunction over j < i of [G[j] = n - 1], for i in 1..w-1
\* (G counted from 0)
StatedCanonicity(G, n, w) ==
  {{TermLiteral(G[i + 1], n, FALSE, n)}
     \cup {TermLiteral(G[j + 1], n - 1, TRUE, n) : j \in 0..(i - 1)}
   : i \in 1..(w - 1)}

\* C21: at every size n (from 2 on, where n - 1 is a domain element) the
\* canonicity clauses in the buffer are, for every sort with grounded-term list
\* G, the clauses NOT[G[i] = n] OR [G[0] = n-1] OR ... OR [G[i-1] = n-1] for i in
\* 1..w-1 with w = min(ceil(ratio * maxSize), |G|), one for each i, and no others
C21_CanonicityWindowAsStated ==
  (Encoded /\ modelSize >= 2) =>
    /\ CanonicityClauses =
         UNION {StatedCanonicity(sortedGroundedTerms[s], modelSize,
                                 StatedWindow(Len(sortedGroundedTerms[s])))
                : s \in 0..(prob.sorts - 1)}
    /\ \A s \in 0..(prob.sorts - 1) :
         LET G == sortedGroundedTerms[s]
             w == StatedWindow(Len(G))
         IN  \A i, k \in 1..(w - 1) :
               i # k => StatedCanonicity(G, modelSize, i + 1) # StatedCanonicity(G, modelSize, k + 1)

\* the product ratio * maxSize is an unsigned value
ProductRepresentable ==
  (opt.symmetryRatio.num * ToFloat(maxModelSize)) \div opt.symmetryRatio.den <= UINT_MAX

\* the window of the code where the conversion is defined: the product rounded down
C21_FloorWindowWhereDefined ==
  (Encoded /\ modelSize >= 2 /\ ProductRepresentable) =>
    CanonicityClauses =
      UNION {StatedCanonicity(sortedGroundedTerms[s], modelSize,
               Min((opt.symmetryRatio.num * maxModelSize) \div opt.symmetryRatio.den,
                   Len(sortedGroundedTerms[s])))
             : s \in 0..(prob.sorts - 1)}

(***************************************************************************)
(* Overflow in reset.                                                      *)
(***************************************************************************)
\* the variable total for size n in unbounded arithmetic (every block cut off
\* just above UINT_MAX, which keeps a total above UINT_MAX above it)
VariableTotal(n) ==
  1 + Sum(LiveFunctions, [f \in LiveFunctions |-> PowCut(n, functionArity(f) + 2)])
    + Sum(LivePredicates, [p \in LivePredicates |-> PowCut(n, predicateArity(p) + 1)])

\* C22: when reset(n) has returned true, the variable total for n is an unsigned
\* value, every block size is one, the offsets counted are that total, and the
\* count passed to ensureVarCount is the total plus one, not wrapped around
C22_TrueReturnMeansNoOverflow ==
  AfterReset =>
    /\ VariableTotal(modelSize) <= UINT_MAX
    /\ BlocksRepresentable(modelSize)
    /\ LastReset.offsets = VariableTotal(modelSize)
    /\ solver.varCnt = VariableTotal(modelSize) + 1

(***************************************************************************)
(* What a round leaves to the next.                                        *)
(***************************************************************************)
\* the five clause groups of the round for size n
GroupsOf(n) == [i \in 1..Len(Groups) |-> [group |-> Groups[i], size |-> n]]

\* an earlier round was solved and the loop went on to the present size
Continued ==
  /\ pc = "loop"
  /\ \E k \in 1..Len(trace) : IsSolve(trace[k])

\* C23: when solve() is called in the round for size n the solver is the one
\* reset(n) created, empty until then, and is given exactly the clause groups
\* generated for n in that round; after a round that continues, the buffer is
\* empty and the solver and the grounded-term lists are those built for the new
\* size
C23_SolverAndBufferFresh ==
  /\ (pc = "solve" /\ ~solver.null) =>
       /\ solver.size = modelSize
       /\ solver.clauses = <<>>
       /\ clausesToBeAdded = GroupsOf(modelSize)
  /\ pc = "verdict" =>
       /\ ~solver.null
       /\ solver.size = modelSize
       /\ solver.clauses = GroupsOf(modelSize)
  /\ Continued =>
       /\ clausesToBeAdded = <<>>
       /\ ~solver.null
       /\ solver.size = modelSize
       /\ solver.clauses = <<>>
       /\ sortedGroundedTerms = BuildGroundedTerms(modelSize)
       /\ \A s \in 0..(prob.sorts - 1) : \A k \in 1..Len(sortedGroundedTerms[s]) :
            sortedGroundedTerms[s][k].grounding <= modelSize

\* solve() has been called for size 3 after the rounds for sizes 1 and 2
C23_Witness ==
  /\ pc = "verdict"
  /\ modelSize = 3
  /\ SolvedSize(1)
  /\ SolvedSize(2)
  /\ solver.clauses = GroupsOf(3)
  /\ \E s \in 0..(prob.sorts - 1) : Len(sortedGroundedTerms[s]) >= 3

(***************************************************************************)
(* The order of the symbols.                                               *)
(***************************************************************************)
\* C24: after init, when the symbol order is not OCCURENCE the lists of
\* constants and of functions reset builds the grounded terms from are the
\* lists of the sort inference sorted by descending usage count; with OCCURENCE
\* they are those lists in their occurrence order
C24_ListsOrderedByUsage ==
  (pc # "constructed" /\ opt.complete) =>
    \A s \in 0..(prob.sorts - 1) :
      IF opt.symbolOrder = "OCCURENCE"
      THEN /\ sortedConstants(s) = prob.sortedConstants[s]
           /\ sortedFunctions(s) = prob.sortedFunctions[s]
      ELSE /\ sortedConstants(s) \in Sorted(prob.sortedConstants[s], clauses \o groundClauses)
           /\ sortedFunctions(s) \in Sorted(prob.sortedFunctions[s], clauses \o groundClauses)

(***************************************************************************)
(* The grounded terms.                                                     *)
(***************************************************************************)
\* reset(solver.size) has built the grounded terms
TermsBuilt == ~solver.null /\ pc \in {"loop", "solve", "verdict", "done"}

\* the entry keeps to the bounds of its symbol at size n
EntryWithinBounds(e, n) ==
  /\ functionBounds(e.f)[0] >= n
  /\ \A i \in 0..(functionArity(e.f) - 1) : functionBounds(e.f)[i + 1] >= e.grounding

PlaceOf(s, f) == (CHOOSE k \in 1..Len(sortedFunctions(s)) : sortedFunctions(s)[k] = f) - 1

\* the pair the widget order yields for the function at place i and the value m
\* of the loop over 1..n
Yields(s, i, m, n) ==
  GroundedTerm(sortedFunctions(s)[i + 1],
               IF opt.widgetOrder = "DIAGONAL" THEN 1 + ((m + i) % n) ELSE m)

\* the value of m at which entry e of sort s is yielded
LoopValue(s, e, n) ==
  CHOOSE m \in 1..n : Yields(s, PlaceOf(s, e.f), m, n) = e

\* entry d is yielded before entry e: FUNCTION_FIRST runs through the functions
\* and for each through m, the other two orders through m and for each through
\* the functions
YieldedBefore(s, d, e, n) ==
  LET i == PlaceOf(s, d.f)
      j == PlaceOf(s, e.f)
      l == LoopValue(s, d, n)
      m == LoopValue(s, e, n)
  IN  IF opt.widgetOrder = "FUNCTION_FIRST"
      THEN i < j \/ (i = j /\ l < m)
      ELSE l < m \/ (l = m /\ i < j)

\* C26: groundedTerms[s] is the constants of the sort in list order, each with
\* index 0, followed by the pairs the widget order yields that are not skipped,
\* each once and in the order in which they are yielded: (f, m) by f then m
\* under FUNCTION_FIRST, (f, m) by m then f under ARGUMENT_FIRST, and
\* (f, 1 + ((m + i) mod n)) by m then f under DIAGONAL, i the place of f
C26_TermsInWidgetOrder ==
  TermsBuilt =>
    \A s \in 0..(prob.sorts - 1) :
      LET G == sortedGroundedTerms[s]
          n == solver.size
          nc == Len(sortedConstants(s))
          kept == {e \in {Yields(s, i, m, n) : i \in 0..(Len(sortedFunctions(s)) - 1),
                                               m \in 1..n} :
                     ~RangeTooSmall(e.f, n) /\ ~outOfBounds(e.f, e.grounding)}
      IN  /\ Len(G) = nc + Cardinality(kept)
          /\ \A k \in 1..nc : G[k] = GroundedTerm(sortedConstants(s)[k], 0)
          /\ {G[k] : k \in (nc + 1)..Len(G)} = kept
          /\ \A k, l \in (nc + 1)..Len(G) : k < l => YieldedBefore(s, G[k], G[l], n)

\* two functions of one sort on the diagonal at size 3, after a constant
C26_Witness ==
  /\ TermsBuilt
  /\ opt.widgetOrder = "DIAGONAL"
  /\ solver.size = 3
  /\ \E s \in 0..(prob.sorts - 1) :
       /\ Len(sortedConstants(s)) >= 1
       /\ Len(sortedFunctions(s)) >= 2
       /\ Len(sortedGroundedTerms[s]) = Len(sortedConstants(s)) + 6
       /\ sortedGroundedTerms[s][Len(sortedConstants(s)) + 1].grounding = 2
       /\ sortedGroundedTerms[s][Len(sortedConstants(s)) + 2].grounding = 3

(***************************************************************************)
(* The diagonal: reset under DIAGONAL for every list of up to               *)
(* MaxDiagonalFunctions unary functions of one sort and every choice of    *)
(* their range and argument bounds.                                        *)
(***************************************************************************)
DiagonalBounds == {1, 2, Inf}

BoundLists == UNION {[1..nf -> DiagonalBounds] : nf \in 1..MaxDiagonalFunctions}

\* the functions 0 .. Len(rb)-1, all unary and of one sort, function i with range
\* bound rb[i+1] and argument bound ab[i+1]:  f0(x) != y
DiagonalProblem(rb, ab) ==
  [ name |-> "Diagonal", epr |-> FALSE,
    functionArity |-> [f \in 0..(Len(rb) - 1) |-> 1], predicateArity |-> Arr(<<2>>),
    deletedFunctions |-> {}, deletedPredicates |-> {},
    input |-> << <<Def(FALSE, 0, <<0>>, 1)>> >>,
    sorts |-> 1,
    sortedConstants |-> Arr(<< <<>> >>),
    sortedFunctions |-> Arr(<< [i \in 1..Len(rb) |-> i - 1] >>),
    functionBounds |-> [f \in 0..(Len(rb) - 1) |-> Arr(<<rb[f + 1], ab[f + 1]>>)],
    predicateBounds |-> Arr(<< Arr(<<Inf, Inf>>) >>) ]

InitDiagonal ==
  /\ prob \in UNION {{DiagonalProblem(rb, ab) : ab \in [1..Len(rb) -> DiagonalBounds]}
                     : rb \in BoundLists}
  /\ opt \in {o \in Options :
                /\ o.complete
                /\ ~o.useConstantsAsStart
                /\ o.startModelSize \in 1..MaxStart
                /\ o.widgetOrder = "DIAGONAL"
                /\ o.symbolOrder = "OCCURENCE"
                /\ o.symmetryRatio.num = o.symmetryRatio.den}
  /\ Constructed

NextDiagonal ==
  \/ init
  \/ Begin

SpecDiagonal == InitDiagonal /\ [][NextDiagonal]_vars

\* the loops of the DIAGONAL case written out for a list of functions given by
\* their range bounds rb and argument bounds ab: the pairs (place, index) pushed
DiagonalTerms(n, rb, ab) ==
  LET nf == Len(rb)
      body(k) == LET m == ((k - 1) \div nf) + 1
                     i == (k - 1) % nf
                     g == 1 + (Wrap(m + i) % n)
                 IN  [place |-> i, grounding |-> g, skip |-> rb[i + 1] < n \/ ab[i + 1] < g]
  IN  SelectSeq([k \in 1..(nf * n) |-> body(k)], NotSkipped)

HasRepeat(seq) == \E k, l \in 1..Len(seq) : k < l /\ seq[k] = seq[l]

\* C27: under DIAGONAL there are a size n and bounds with some range bound
\* shorter than n for which the list built by reset(n) holds a pair twice
\* (stated in the states in which reset has built a list)
C27_DiagonalRepeatsAPair ==
  TermsBuilt =>
    \E n \in 1..MaxStart : \E rb \in BoundLists :
      \E ab \in [1..Len(rb) -> DiagonalBounds] :
        /\ \E i \in 1..Len(rb) : rb[i] < n
        /\ HasRepeat(DiagonalTerms(n, rb, ab))

\* the least argument bound of f
LeastArgumentBound(f) ==
  CHOOSE b \in {functionBounds(f)[i] : i \in 1..functionArity(f)} :
    \A i \in 1..functionArity(f) : b <= functionBounds(f)[i]

\* C27 as amended: under DIAGONAL the list built by reset(n) holds no pair
\* twice, whatever the bounds, at every size n at which m + i does not wrap
\* around: a function whose range bound is shorter than n is left out for every
\* m, and the indices of any other function are among 1..n rotated by its place
C27_DiagonalNeverRepeats ==
  (TermsBuilt /\ opt.widgetOrder = "DIAGONAL") =>
    \A s \in 0..(prob.sorts - 1) :
      LET fs == sortedFunctions(s)
          G == sortedGroundedTerms[s]
          D == DiagonalTerms(solver.size,
                             [i \in 1..Len(fs) |-> functionBounds(fs[i])[0]],
                             [i \in 1..Len(fs) |-> LeastArgumentBound(fs[i])])
      IN  /\ ~HasRepeat(G)
          /\ ~HasRepeat(D)
          /\ G = ConstantTerms(s)
                   \o [k \in 1..Len(D) |-> GroundedTerm(fs[D[k].place + 1], D[k].grounding)]
          /\ \A k \in 1..Len(G) :
               functionArity(G[k].f) > 0 => functionBounds(G[k].f)[0] >= solver.size

\* a diagonal list at a size above the range bound of one of the functions of
\* the sort, with an entry another function has above index 1
C27_Witness ==
  /\ TermsBuilt
  /\ opt.widgetOrder = "DIAGONAL"
  /\ solver.size >= 3
  /\ \E s \in 0..(prob.sorts - 1) :
       /\ \E k \in 1..Len(sortedFunctions(s)) :
            RangeTooSmall(sortedFunctions(s)[k], solver.size)
       /\ \E k \in 1..Len(sortedGroundedTerms[s]) :
            sortedGroundedTerms[s][k].grounding >= 2
       /\ Len(sortedGroundedTerms[s]) >= 3

(***************************************************************************)
(* The first size.                                                         *)
(***************************************************************************)
\* C28: every size handed to reset and to the encoder is at least 1, whatever
\* the options and the problem
C28_SizesAtLeastOne ==
  /\ \A k \in 1..Len(trace) :
       (IsReset(trace[k]) \/ IsEncode(trace[k])) => trace[k].size >= 1
  /\ pc \in {"loop", "solve", "verdict"} => modelSize >= 1

(***************************************************************************)
(* The length of the enumeration.                                          *)
(***************************************************************************)
\* C29: at every size n the counter of addNewInstances visits at most
\* n^(number of variables) groundings of a clause before it has run through,
\* a clause with variables that occur only in two-variable equalities included
C29_VisitsAtMostAllGroundings ==
  (InLoop /\ modelSize >= 1) =>
    loop.visits <= PowCut(modelSize, varCnt(clauses[loop.clause]))

\* the same for the clauses whose variables all have a clause bound
C29_BoundedClausesAtMostAllGroundings ==
  (InLoop /\ modelSize >= 1 /\ AllBounded(loop.clause)) =>
    loop.visits <= PowCut(modelSize, varCnt(clauses[loop.clause]))

(***************************************************************************)
(* LingelingInterfacing: the calls of the SATSolver interface on one       *)
(* object.  added is the clause set inside Lingeling (lgladd); lglsat      *)
(* decides it together with the literals assumed since the last lglsat,    *)
(* or gives up at a limit.                                                 *)
(***************************************************************************)
LingelingLiterals == [var : 1..MaxLingelingVars, pol : BOOLEAN]

\* the clauses of at most two literals, the empty clause among them
LingelingClauses == {c \in SUBSET LingelingLiterals : Cardinality(c) <= 2}

FMBUnchanged ==
  UNCHANGED <<prob, opt, groundClauses, clauses, clauseBounds, maxModelSize, constantCount,
              f_offsets, p_offsets, solver, sortedGroundedTerms, clausesToBeAdded,
              pc, modelSize, satResult, result, timeLimitReached, trace, loop, model>>

\* lglsat: the clauses together with the assumed literals
lglsat(cls, assumps) ==
  IF \E A \in SUBSET (1..MaxLingelingVars) :
       /\ \A c \in cls : Satisfies(A, c)
       /\ \A k \in 1..Len(assumps) : Satisfies(A, {assumps[k]})
  THEN "SATISFIABLE" ELSE "UNSATISFIABLE"

\* the values of _status after solveModuloAssumptionsAndSetStatus(assumps, limit)
solveModuloAssumptionsAndSetStatus(assumps) == {lglsat(lgl.added, assumps), "UNKNOWN"}

\* lglfailed: the assumptions the refutation used, here those that are needed
lglfailed(assumps) ==
  {assumps[k] : k \in {j \in 1..Len(assumps) :
     lglsat(lgl.added, SelectSeq(assumps, LAMBDA a : a # assumps[j])) = "SATISFIABLE"}}

\* addClause(cl): nothing is added once _status is UNSATISFIABLE
addClause ==
  /\ lgl.calls < MaxLingelingCalls
  /\ lgl.assumptions = <<>>
  /\ \E cl \in LingelingClauses :
       lgl' = [lgl EXCEPT !.passed = lgl.passed \cup {cl},
                          !.added = IF lgl.status = "UNSATISFIABLE" THEN lgl.added
                                    ELSE lgl.added \cup {cl},
                          !.last = "addClause",
                          !.calls = lgl.calls + 1]
  /\ FMBUnchanged

\* solve(conflictCountLimit): under the assumptions of addAssumption
solve ==
  /\ lgl.calls < MaxLingelingCalls
  /\ \E st \in solveModuloAssumptionsAndSetStatus(lgl.assumptions) :
       lgl' = [lgl EXCEPT !.status = st, !.last = "solve", !.calls = lgl.calls + 1]
  /\ FMBUnchanged

\* solveUnderAssumptions(assumps, conflictCountLimit, bool)
solveUnderAssumptions ==
  /\ lgl.calls < MaxLingelingCalls
  /\ lgl.assumptions = <<>>
  /\ \E assumps \in {<<l>> : l \in LingelingLiterals} :
       \E st \in solveModuloAssumptionsAndSetStatus(assumps) :
         lgl' = [lgl EXCEPT !.status = st,
                            !.failed = IF st = "UNSATISFIABLE" THEN lglfailed(assumps)
                                       ELSE lgl.failed,
                            !.last = "solveUnderAssumptions",
                            !.calls = lgl.calls + 1]
  /\ FMBUnchanged

\* addAssumption(literal)
addAssumption ==
  /\ lgl.calls < MaxLingelingCalls
  /\ \E literal \in LingelingLiterals :
       lgl' = [lgl EXCEPT !.assumptions = Append(lgl.assumptions, literal),
                          !.last = "addAssumption",
                          !.calls = lgl.calls + 1]
  /\ FMBUnchanged

\* retractAllAssumptions()
retractAllAssumptions ==
  /\ lgl.calls < MaxLingelingCalls
  /\ lgl' = [lgl EXCEPT !.assumptions = <<>>, !.status = "UNKNOWN",
                        !.last = "retractAllAssumptions",
                        !.calls = lgl.calls + 1]
  /\ FMBUnchanged

InitLingeling ==
  /\ prob = Propositional
  /\ opt \in {o \in Options :
                /\ o.complete
                /\ ~o.useConstantsAsStart
                /\ o.startModelSize = 1
                /\ o.widgetOrder = "FUNCTION_FIRST"
                /\ o.symbolOrder = "OCCURENCE"
                /\ o.symmetryRatio.num = o.symmetryRatio.den}
  /\ Constructed

NextLingeling ==
  \/ addClause
  \/ solve
  \/ solveUnderAssumptions
  \/ addAssumption
  \/ retractAllAssumptions

SpecLingeling == InitLingeling /\ [][NextLingeling]_vars

\* C30: when solve() has decided, without assumptions, after any calls of
\* addClause, solve and solveUnderAssumptions, every clause that was passed to
\* addClause is in the clause set it decided, or was left out of a set that
\* was unsatisfiable already, so that the verdict is the one of all the clauses
\* passed
C30_EveryClauseIsDecided ==
  (lgl.last = "solve" /\ lgl.assumptions = <<>> /\ lgl.status # "UNKNOWN") =>
    /\ lgl.passed = lgl.added \/ lglsat(lgl.added, <<>>) = "UNSATISFIABLE"
    /\ lgl.status = lglsat(lgl.passed, <<>>)
====
